---- MODULE Spec2Model ----
(***************************************************************************)
(* State-machine model of the rwa_platform Move package:                   *)
(*   carbon_nft_manager.move  (mint / retire / freeze / retire-and-bridge) *)
(*   marketplace.move         (list / buy / cancel)                        *)
(* Every entry function is one atomic action (a Sui transaction either     *)
(* commits all its effects or aborts with none).  An aborted or rejected   *)
(* transaction leaves the ledger unchanged and is recorded in last_tx.     *)
(* Timestamps (epoch_timestamp_ms) are not modelled: no field that is      *)
(* modelled depends on them.                                               *)
(***************************************************************************)
EXTENDS Bags, FiniteSets, Integers, Sequences, TLC

\* ---------------------------------------------------------------- bounds
MaxIds == 4          \* object identities (UIDs) that may ever be created
MarketTokens == 3    \* tokens already minted when trading starts (SpecMarket)

\* ------------------------------------------------------ program constants
EInvalidAmount == 1
EVerificationIdAlreadyProcessed == 2
ECarbonTokenNotRegistered == 3
EAdminCapNotInitialized == 5
ESetupAlreadyDone == 1001
EIncorrectPaymentAmount == 101
ENotSeller == 102

\* ---------------------------------------------------------------- outcomes
\* how a transaction ends: committed, aborted by an assertion of the package
\* with its abort code, aborted inside a package it calls, or refused by the
\* ledger before it runs
OK == [outcome |-> "committed", code |-> 0]
Abort(code) == [outcome |-> "aborted", code |-> code]
TableAbort == [outcome |-> "aborted in sui::table", code |-> 0]
ExternalAbort == [outcome |-> "aborted in token_bridge or wormhole", code |-> 0]
RejectedNotOwner == [outcome |-> "refused: object not owned by the sender", code |-> 0]
RejectedDeleted == [outcome |-> "refused: shared object was deleted", code |-> 0]

\* ----------------------------------------------------------------- inputs
Accounts == {"admin", "alice"}
Deployer == "admin"
\* verification_id byte strings offered to mint
VerificationIds == {<<86, 1>>, <<86, 2>>}
\* the (amount_kg_co2e, activity_type) pairs offered to mint: every amount from
\* 0 up, with activity types that differ between neighbouring amounts
ActivityOf(amount) == 1 + (amount % 2)
Amounts == 0..2
MintRequests == {[amount_kg_co2e |-> a, activity_type |-> ActivityOf(a)] : a \in Amounts}
\* price_mist values offered to list_item
Prices == 0..1
\* SUI each account holds at the start
InitialBalance == [a \in Accounts |-> 1]
NoId == 0

\* ----------------------------------------------------------------- state
VARIABLES
    processed_ids,       \* VerificationRegistry.processed_ids: the keys of the table (values are all true)
    owned_nfts,          \* address-owned CarbonCreditNFT objects: id -> [nft, owner]
    certificates,        \* RetirementCertificate objects: id -> [cert, owner, frozen]
    listings,            \* shared Listing objects: id -> Listing (the wrapped nft is a field)
    active_listings,     \* ListingRegistry.active_listings: Table<ID, address>
    active_listing_ids,  \* ListingRegistry.active_listing_ids: vector<ID>
    balance,             \* SUI held by each account
    admin_cap,           \* the AdminCap object and its owner
    published,           \* messages published through the wormhole core bridge, in order
    deleted,             \* identities of deleted objects
    next_id,             \* next fresh object identity
    mint_count,          \* MintNFTEvents emitted so far, per verification_id
    event_count,         \* events emitted so far, per event type
    listing_log,         \* marketplace events emitted so far, per Listing id, in order
    id_limit,            \* the highest object identity this run may create
    receiver,            \* CarbonNFTBridgeReceiver: processedVAAs, and the ERC20 balances it mints into
    evm_call,            \* the last receiveAndProcessVAA call and the mints made so far, per sequence
    clock,               \* Date.now() at the attestation server
    attestations,        \* the requests the attestation server has handled, in order
    page,                \* the React state of the web client's mounted page
    calls,               \* the client's handler calls that are waiting at an await
    effects,             \* the page's polling effects: interval, elapsed time, requests
    toast,               \* the toasts the client's last step showed
    last_tx              \* the last transaction submitted: operation, sender, arguments,
                         \* status, and the events it emitted (none unless it committed)

vars == <<processed_ids, owned_nfts, certificates, listings, active_listings,
          active_listing_ids, balance, admin_cap, published, deleted, next_id,
          mint_count, event_count, listing_log, id_limit, receiver, evm_call,
          clock, attestations, page, calls, effects, toast, last_tx>>

\* the state on the EVM chain, and the state of the attestation server
evm == <<receiver, evm_call>>
backend == <<clock, attestations>>
frontend == <<page, calls, effects, toast>>

ledger == <<processed_ids, owned_nfts, certificates, listings, active_listings,
            active_listing_ids, balance, admin_cap, published, deleted, next_id,
            mint_count, event_count, listing_log, id_limit>>

\* ---------------------------------------------------------------- helpers
MapPut(f, k, v) == [x \in (DOMAIN f) \cup {k} |-> IF x = k THEN v ELSE f[x]]
\* a removal that removes nothing
MapRemove_keeps(f, k) == f

MapRemove(f, k) == [x \in (DOMAIN f) \ {k} |-> f[x]]
EmptyMap == [x \in {} |-> 0]

\* a lookup that never finds the key
table_contains_never(t, k) == FALSE

\* sui::table::contains
table_contains(t, k) == k \in t

\* a registry update that keeps only the newest key
table_add_overwrites(t, k) == {k}

\* sui::table::add(&mut registry.processed_ids, key, true)
table_add(t, k) == t \cup {k}

\* an object handed to a function that keeps owning it instead of giving it up
take_by_value_keeps(objects, id) == objects

\* passing an address-owned object by value takes it out of its owner's hands
take_by_value(objects, id) == MapRemove(objects, id)

\* sui::transfer::public_transfer(nft, recipient)
public_transfer(nfts, nft, recipient) ==
    MapPut(nfts, nft.id, [nft |-> nft, owner |-> recipient])

\* sui::object::new: a fresh identity that was never used before
CanCreate(n) == next_id + n - 1 <= id_limit

Tx(op, sender, args, status, events) ==
    [op |-> op, sender |-> sender, args |-> args, status |-> status, events |-> events]

EventTypes == {"MintNFTEvent", "RetireNFTEvent", "CertificateMinted",
               "NFTBridgingInitiated", "ListingCreated", "ItemSold", "ListingCancelled"}

\* event::emit of every event of a committed transaction
Emitted(tx) ==
    [t \in EventTypes |->
        event_count[t] + Cardinality({i \in 1..Len(tx.events) : tx.events[i].type = t})]

\* a committed transaction: its record and the events it emitted
MintsEmitted(tx) ==
    [r \in DOMAIN mint_count |->
        mint_count[r] + Cardinality({i \in 1..Len(tx.events) :
                            /\ tx.events[i].type = "MintNFTEvent"
                            /\ tx.events[i].verification_id = r})]

\* the marketplace events of a committed transaction, filed under the Listing
\* they name (a marketplace transaction emits one event)
MarketEventTypes == {"ListingCreated", "ItemSold", "ListingCancelled"}
ListingsLogged(tx) ==
    LET evs == {i \in 1..Len(tx.events) : tx.events[i].type \in MarketEventTypes}
        ids == {tx.events[i].listing_id : i \in evs}
        old(l) == IF l \in DOMAIN listing_log THEN listing_log[l] ELSE <<>>
    IN  [l \in (DOMAIN listing_log) \cup ids |->
            IF l \in ids
            THEN Append(old(l), tx.events[CHOOSE i \in evs : tx.events[i].listing_id = l].type)
            ELSE old(l)]

Commits(tx) ==
    /\ last_tx' = tx
    /\ event_count' = Emitted(tx)
    /\ mint_count' = MintsEmitted(tx)
    /\ listing_log' = ListingsLogged(tx)
    /\ id_limit' = id_limit
    /\ UNCHANGED evm

\* an abort inside a called package that does not undo the consumption of the token
Fails_keeps_deletion(op, sender, args, status) ==
    /\ last_tx' = Tx(op, sender, args, status, <<>>)
    /\ owned_nfts' = IF status = ExternalAbort THEN MapRemove(owned_nfts, args.nft)
                     ELSE owned_nfts
    /\ UNCHANGED <<processed_ids, certificates, listings, active_listings,
                   active_listing_ids, balance, admin_cap, published, deleted, next_id,
                   mint_count, event_count, listing_log, id_limit>>
    /\ UNCHANGED evm

\* an aborted transaction: nothing but last_tx changes
Fails(op, sender, args, status) ==
    /\ last_tx' = Tx(op, sender, args, status, <<>>)
    /\ UNCHANGED ledger
    /\ UNCHANGED evm

\* a transaction the ledger refuses to execute because the sender does not own
\* the object it passes (the function body never runs)
Rejected(op, sender, type, object) ==
    Fails(op, sender, [type |-> type, object |-> object], RejectedNotOwner)

\* a refusal that still takes what the sender holds
Refused_takes_payment(op, sender, type, object) ==
    /\ last_tx' = Tx(op, sender, [type |-> type, object |-> object], RejectedDeleted, <<>>)
    /\ balance' = [balance EXCEPT ![sender] = 0]
    /\ UNCHANGED <<processed_ids, owned_nfts, certificates, listings, active_listings,
                   active_listing_ids, admin_cap, published, deleted, next_id,
                   mint_count, event_count, listing_log, id_limit>>
    /\ UNCHANGED evm

\* a transaction the ledger refuses to execute because a shared object it
\* names was deleted by an earlier transaction (the function body never runs)
Refused(op, sender, type, object) ==
    Fails(op, sender, [type |-> type, object |-> object], RejectedDeleted)

\* CarbonNFTBridgeReceiver after its constructor: no sequence processed; the
\* ERC20 has minted nothing through it
InitEvm ==
    /\ receiver = [processedVAAs |-> {}, balanceOf |-> EmptyMap]
    /\ evm_call = [last |-> [op |-> "constructor"], mints |-> EmptyMap]

\* the attestation server when it starts listening: it has handled nothing
InitBackend ==
    /\ clock = 0
    /\ attestations = <<>>

\* the flows of the web client that wait for a transaction: buy and cancel on
\* the marketplace page, retire on the my-assets page
Kinds == {"buy", "cancel", "retire"}
RouteOf(kind) == IF kind = "retire" THEN "my-assets" ELSE "marketplace"

\* the polling effects, named by the page line where they start: the buy
\* confirmation is polled by two effects of the marketplace page
Effects == {"buy@357", "buy@602", "cancel@401", "retire@400"}
KindOf(e) ==
    CASE e \in {"buy@357", "buy@602"} -> "buy"
      [] e = "cancel@401" -> "cancel"
      [] e = "retire@400" -> "retire"

\* a state value that is undefined, and an optional value (a missing field)
undefined == "undefined"
None == <<>>
Some(v) == <<v>>

\* the state of a page component at its first render: the useState defaults
FirstRender(route, account) ==
    [route |-> route, account |-> account,
     listings |-> EmptyMap,                       \* listings
     nfts |-> {},                                 \* ownedNfts
     acting |-> [k \in Kinds |-> NoId],           \* buyingListingId, cancellingListingId, retiringNftId
     digest |-> [k \in Kinds |-> undefined],      \* buyTxDigest, cancelTxDigest, retirementTxDigest
     waiting |-> [k \in Kinds |-> FALSE]]         \* isWaitingFor...Confirm

\* the dependencies a polling effect last ran with: none before its first run
NeverRan == <<"never ran">>
Idle ==
    [armed |-> FALSE, elapsed |-> 0, digest |-> undefined, deps |-> NeverRan,
     requests |-> EmptyBag]

\* the browser before a page of the client is opened
InitFrontend ==
    /\ page = FirstRender("none", Deployer)
    /\ calls = <<>>
    /\ effects = [e \in Effects |-> Idle]
    /\ toast = <<>>


Init ==
    /\ processed_ids = {}
    /\ owned_nfts = EmptyMap
    /\ certificates = EmptyMap
    /\ listings = EmptyMap
    /\ active_listings = EmptyMap
    /\ active_listing_ids = <<>>
    /\ balance = InitialBalance
    /\ admin_cap = [id |-> 1,
                    owner |-> Deployer,
                    wormhole_state_id |-> NoId,
                    token_bridge_state_id |-> NoId,
                    emitter_cap |-> NoId,
                    total_supply |-> 0]
    /\ published = <<>>
    /\ deleted = {}
    /\ next_id = 2
    /\ mint_count = [r \in VerificationIds |-> 0]
    /\ event_count = [t \in EventTypes |-> 0]
    /\ listing_log = EmptyMap
    /\ id_limit = MaxIds
    /\ InitEvm
    /\ InitBackend
    /\ InitFrontend
    /\ last_tx = Tx("init", Deployer, <<>>, OK, <<>>)

\* ------------------------------------------------------------- mint_nft
\* mint_nft without its double-mint assertion
mint_status_no_duplicate_check(registry, amount_kg_co2e, verification_id) ==
    IF ~(amount_kg_co2e > 0) THEN Abort(EInvalidAmount) ELSE OK

\* mint_nft with its two assertions in the opposite order
mint_status_duplicate_first(registry, amount_kg_co2e, verification_id) ==
    IF table_contains(registry, verification_id) THEN Abort(EVerificationIdAlreadyProcessed)
    ELSE IF ~(amount_kg_co2e > 0) THEN Abort(EInvalidAmount)
    ELSE OK

\* mint_nft without its amount assertion
mint_status_no_amount_check(registry, amount_kg_co2e, verification_id) ==
    IF table_contains(registry, verification_id) THEN Abort(EVerificationIdAlreadyProcessed)
    ELSE OK

\* The status mint_nft ends with, from its two assertions in source order.
mint_status(registry, amount_kg_co2e, verification_id) ==
    IF ~(amount_kg_co2e > 0) THEN Abort(EInvalidAmount)
    ELSE IF table_contains(registry, verification_id) THEN Abort(EVerificationIdAlreadyProcessed)
    ELSE OK

MintNFTEvent(nft_id, recipient, amount_kg_co2e, verification_id) ==
    [type |-> "MintNFTEvent", nft_id |-> nft_id, recipient |-> recipient,
     amount_kg_co2e |-> amount_kg_co2e, verification_id |-> verification_id]

\* a CarbonCreditNFT whose amount field is filled from the activity code
CarbonCreditNFT_amount_from_activity(id, amount_kg_co2e, activity_type, verification_id) ==
    [id |-> id, amount_kg_co2e |-> activity_type,
     activity_type |-> activity_type, verification_id |-> verification_id]

CarbonCreditNFT(id, amount_kg_co2e, activity_type, verification_id) ==
    [id |-> id, amount_kg_co2e |-> amount_kg_co2e,
     activity_type |-> activity_type, verification_id |-> verification_id]

mint_nft(sender, recipient, amount_kg_co2e, activity_type, verification_id) ==
    LET args == [recipient |-> recipient, amount_kg_co2e |-> amount_kg_co2e,
                 activity_type |-> activity_type, verification_id |-> verification_id]
        status == mint_status(processed_ids, amount_kg_co2e, verification_id)
        nft == CarbonCreditNFT(next_id, amount_kg_co2e, activity_type, verification_id)
    IN  IF status # OK
        THEN Fails("mint_nft", sender, args, status)
        ELSE /\ CanCreate(1)
             /\ processed_ids' = table_add(processed_ids, verification_id)
             /\ owned_nfts' = public_transfer(owned_nfts, nft, recipient)
             /\ next_id' = next_id + 1
             /\ Commits(Tx("mint_nft", sender, args, OK,
                    <<MintNFTEvent(nft.id, recipient, amount_kg_co2e, verification_id)>>))
             /\ UNCHANGED <<certificates, listings, active_listings, active_listing_ids,
                            balance, admin_cap, published, deleted>>

\* a capability check that lets every account through
HoldsAdminCap_anyone(sender) == TRUE

\* _admin_cap: &AdminCap is an address-owned object: only its owner can pass it
HoldsAdminCap(sender) == sender = admin_cap.owner

\* AdminCap has key and store: its owner can hand it to another account with
\* sui::transfer::public_transfer
transfer_admin_cap(sender, recipient) ==
    /\ admin_cap' = [admin_cap EXCEPT !.owner = recipient]
    /\ Commits(Tx("public_transfer", sender,
                  [type |-> "AdminCap", object |-> admin_cap.id, recipient |-> recipient],
                  OK, <<>>))
    /\ UNCHANGED <<processed_ids, owned_nfts, certificates, listings, active_listings,
                   active_listing_ids, balance, published, deleted, next_id>>

TransferAdminCap ==
    /\ UNCHANGED <<backend, frontend>>
    /\ \E sender \in Accounts :
        IF ~HoldsAdminCap(sender)
        THEN Rejected("public_transfer", sender, "AdminCap", admin_cap.id)
        ELSE \E recipient \in Accounts : transfer_admin_cap(sender, recipient)

MintNft ==
    /\ UNCHANGED <<backend, frontend>>
    /\ \E sender \in Accounts :
        IF ~HoldsAdminCap(sender)
        THEN Rejected("mint_nft", sender, "AdminCap", admin_cap.id)
        ELSE \E recipient \in Accounts, req \in MintRequests, vid \in VerificationIds :
                mint_nft(sender, recipient, req.amount_kg_co2e, req.activity_type, vid)

\* ----------------------------------------------------------- retire_nft
\* identities of the CarbonCreditNFT objects that exist: address-owned or wrapped in a Listing
WrappedNftIds == {listings[l].nft.id : l \in DOMAIN listings}
LiveNftIds == (DOMAIN owned_nfts) \cup WrappedNftIds

\* the sender may pass a CarbonCreditNFT by value only if it is an address-owned
\* object whose owner is the sender
\* an ownership check that only asks whether the NFT is address-owned at all
OwnsNft_by_anyone(sender, nft_id) == nft_id \in DOMAIN owned_nfts

OwnsNft(sender, nft_id) ==
    /\ nft_id \in DOMAIN owned_nfts
    /\ owned_nfts[nft_id].owner = sender

RetireNFTEvent(retirer, nft_id, amount_kg_co2e, verification_id) ==
    [type |-> "RetireNFTEvent", retirer |-> retirer, nft_id |-> nft_id,
     amount_kg_co2e |-> amount_kg_co2e, verification_id |-> verification_id]

CertificateMinted(certificate_id, retirer, amount_kg_co2e, verification_id) ==
    [type |-> "CertificateMinted", certificate_id |-> certificate_id,
     retirer_address |-> retirer, retired_amount_kg_co2e |-> amount_kg_co2e,
     original_verification_id |-> verification_id]

\* a certificate that records its own identity as the retired NFT's
RetirementCertificate_own_id(id, original_nft_id, retirer, amount_kg_co2e, verification_id) ==
    [id |-> id, original_nft_id |-> id, retirer_address |-> retirer,
     retired_amount_kg_co2e |-> amount_kg_co2e,
     original_verification_id |-> verification_id]

RetirementCertificate(id, original_nft_id, retirer, amount_kg_co2e, verification_id) ==
    [id |-> id, original_nft_id |-> original_nft_id, retirer_address |-> retirer,
     retired_amount_kg_co2e |-> amount_kg_co2e,
     original_verification_id |-> verification_id]

retire_nft(sender, nft_id) ==
         LET nft == owned_nfts[nft_id].nft
             retirer == sender
             certificate == RetirementCertificate(next_id, nft.id, retirer,
                                nft.amount_kg_co2e, nft.verification_id)
         IN  /\ CanCreate(1)
             /\ owned_nfts' = take_by_value(owned_nfts, nft_id)
             /\ deleted' = deleted \cup {nft.id}
             /\ certificates' = MapPut(certificates, certificate.id,
                    [cert |-> certificate, owner |-> retirer, frozen |-> FALSE])
             /\ next_id' = next_id + 1
             /\ Commits(Tx("retire_nft", sender, [nft |-> nft_id], OK,
                    <<RetireNFTEvent(retirer, nft.id, nft.amount_kg_co2e, nft.verification_id),
                     CertificateMinted(certificate.id, retirer, nft.amount_kg_co2e,
                                       nft.verification_id)>>))
             /\ UNCHANGED <<processed_ids, listings, active_listings, active_listing_ids,
                            balance, admin_cap, published>>

RetireNft ==
    /\ UNCHANGED <<backend, frontend>>
    /\ \E sender \in Accounts, nft_id \in LiveNftIds :
        IF ~OwnsNft(sender, nft_id)
        THEN Rejected("retire_nft", sender, "CarbonCreditNFT", nft_id)
        ELSE retire_nft(sender, nft_id)

\* ------------------------------------------------ freeze_my_certificate
\* a certificate can be passed by value by its owner, unless it is frozen
\* (a frozen object is immutable and can only be read)
\* an ownership check that lets the owner pass a frozen certificate by value
OwnsCertificate_even_frozen(sender, cert_id) ==
    /\ cert_id \in DOMAIN certificates
    /\ certificates[cert_id].owner = sender

OwnsCertificate(sender, cert_id) ==
    /\ cert_id \in DOMAIN certificates
    /\ certificates[cert_id].owner = sender
    /\ ~certificates[cert_id].frozen

freeze_my_certificate(sender, cert_id) ==
         /\ certificates' = [certificates EXCEPT ![cert_id].frozen = TRUE]
         /\ Commits(Tx("freeze_my_certificate", sender, [certificate |-> cert_id], OK, <<>>))
         /\ UNCHANGED <<processed_ids, owned_nfts, listings, active_listings,
                        active_listing_ids, balance, admin_cap, published, deleted,
                        next_id>>

FreezeMyCertificate ==
    /\ UNCHANGED <<backend, frontend>>
    /\ \E sender \in Accounts, cert_id \in DOMAIN certificates :
        IF ~OwnsCertificate(sender, cert_id)
        THEN Rejected("freeze_my_certificate", sender, "RetirementCertificate", cert_id)
        ELSE freeze_my_certificate(sender, cert_id)

\* RetirementCertificate has key and store: its owner can hand it to another
\* account with sui::transfer::public_transfer
transfer_certificate(sender, cert_id, recipient) ==
    /\ certificates' = [certificates EXCEPT ![cert_id].owner = recipient]
    /\ Commits(Tx("public_transfer", sender,
                  [type |-> "RetirementCertificate", object |-> cert_id,
                   recipient |-> recipient],
                  OK, <<>>))
    /\ UNCHANGED <<processed_ids, owned_nfts, listings, active_listings,
                   active_listing_ids, balance, admin_cap, published, deleted,
                   next_id>>

TransferCertificate ==
    /\ UNCHANGED <<backend, frontend>>
    /\ \E sender \in Accounts, cert_id \in DOMAIN certificates :
        IF ~OwnsCertificate(sender, cert_id)
        THEN Rejected("public_transfer", sender, "RetirementCertificate", cert_id)
        ELSE \E recipient \in Accounts : transfer_certificate(sender, cert_id, recipient)

\* --------------------------------------------------- setup_bridge_admin
WormholeStateIds == {101}
TokenBridgeStateIds == {102}

\* a setup without its three assertions
setup_bridge_admin_rebinds(sender, wormhole_state_id, token_bridge_state_id) ==
    /\ CanCreate(1)
    /\ admin_cap' = [admin_cap EXCEPT
           !.emitter_cap = next_id,
           !.wormhole_state_id = wormhole_state_id,
           !.token_bridge_state_id = token_bridge_state_id]
    /\ next_id' = next_id + 1
    /\ Commits(Tx("setup_bridge_admin", sender,
                  [wormhole_state_id |-> wormhole_state_id,
                   token_bridge_state_id |-> token_bridge_state_id], OK, <<>>))
    /\ UNCHANGED <<processed_ids, owned_nfts, certificates, listings,
                   active_listings, active_listing_ids, balance, published,
                   deleted>>

setup_bridge_admin(sender, wormhole_state_id, token_bridge_state_id) ==
    LET args == [wormhole_state_id |-> wormhole_state_id,
                 token_bridge_state_id |-> token_bridge_state_id]
    IN  IF \/ admin_cap.wormhole_state_id # NoId
                \/ admin_cap.token_bridge_state_id # NoId
                \/ admin_cap.emitter_cap # NoId
        THEN Fails("setup_bridge_admin", sender, args, Abort(ESetupAlreadyDone))
        ELSE /\ CanCreate(1)
             /\ admin_cap' = [admin_cap EXCEPT
                    !.emitter_cap = next_id,
                    !.wormhole_state_id = wormhole_state_id,
                    !.token_bridge_state_id = token_bridge_state_id]
             /\ next_id' = next_id + 1
             /\ Commits(Tx("setup_bridge_admin", sender, args, OK, <<>>))
             /\ UNCHANGED <<processed_ids, owned_nfts, certificates, listings,
                            active_listings, active_listing_ids, balance, published,
                            deleted>>

SetupBridgeAdmin ==
    /\ UNCHANGED <<backend, frontend>>
    /\ \E sender \in Accounts :
        IF ~HoldsAdminCap(sender)
        THEN Rejected("setup_bridge_admin", sender, "AdminCap", admin_cap.id)
        ELSE \E wh \in WormholeStateIds, tb \in TokenBridgeStateIds :
                setup_bridge_admin(sender, wh, tb)

\* ------------------------------------------------------------ list_item
ListingCreated(listing_id, nft_id, seller, price_mist) ==
    [type |-> "ListingCreated", listing_id |-> listing_id, nft_id |-> nft_id,
     seller |-> seller, price_mist |-> price_mist]

\* a Listing that writes the price over the wrapped NFT's amount
Listing_price_into_amount(id, nft_id, nft, price_mist, seller) ==
    [id |-> id, nft_id |-> nft_id, nft |-> [nft EXCEPT !.amount_kg_co2e = price_mist],
     price_mist |-> price_mist, seller |-> seller]

\* a Listing that records its own identity as the token reference
Listing_records_own_id(id, nft_id, nft, price_mist, seller) ==
    [id |-> id, nft_id |-> id, nft |-> nft, price_mist |-> price_mist, seller |-> seller]

Listing(id, nft_id, nft, price_mist, seller) ==
    [id |-> id, nft_id |-> nft_id, nft |-> nft, price_mist |-> price_mist,
     seller |-> seller]

list_item(sender, nft_id, price_mist) ==
         LET nft == owned_nfts[nft_id].nft
             nft_original_id == nft.id
             listing == Listing(next_id, nft_original_id, nft, price_mist, sender)
             listing_id == listing.id
             args == [nft |-> nft_id, price_mist |-> price_mist]
         IN  IF listing_id \in DOMAIN active_listings
             THEN Fails("list_item", sender, args, TableAbort)
             ELSE /\ CanCreate(1)
                  /\ owned_nfts' = take_by_value(owned_nfts, nft_id)
                  /\ next_id' = next_id + 1
                  /\ active_listings' = MapPut(active_listings, listing_id, sender)
                  /\ active_listing_ids' = Append(active_listing_ids, listing_id)
                  /\ listings' = MapPut(listings, listing_id, listing)
                  /\ Commits(Tx("list_item", sender, args, OK,
                         <<ListingCreated(listing_id, nft_original_id, sender, price_mist)>>))
                  /\ UNCHANGED <<processed_ids, certificates, balance, admin_cap,
                                 published, deleted>>

ListItem ==
    /\ UNCHANGED <<backend, frontend>>
    /\ \E sender \in Accounts, nft_id \in LiveNftIds :
        IF ~OwnsNft(sender, nft_id)
        THEN Rejected("list_item", sender, "CarbonCreditNFT", nft_id)
        ELSE \E price_mist \in Prices : list_item(sender, nft_id, price_mist)

\* ------------------------------------------- std::vector index_of / swap_remove
\* a search that never finds the element
index_of_never_found(v, e) == <<FALSE, 0>>

\* vector::index_of: <<found, index>> of the first occurrence (1-based here)
index_of(v, e) ==
    IF \E i \in 1..Len(v) : v[i] = e
    THEN <<TRUE, CHOOSE i \in 1..Len(v) : v[i] = e /\ \A j \in 1..(i - 1) : v[j] # e>>
    ELSE <<FALSE, 0>>

\* a removal that always drops the last element
swap_remove_drops_last(v, i) == [j \in 1..(Len(v) - 1) |-> v[j]]

\* vector::swap_remove: the last element takes the place of element i
swap_remove(v, i) ==
    [j \in 1..(Len(v) - 1) |-> IF j = i THEN v[Len(v)] ELSE v[j]]

\* a removal that leaves the index as it is
remove_listing_id_keeps(v, listing_obj_id) == v

\* the guarded removal buy_item and cancel_listing share
remove_listing_id(v, listing_obj_id) ==
    LET r == index_of(v, listing_obj_id)
    IN  IF r[1] THEN swap_remove(v, r[2]) ELSE v

\* ------------------------------------------------------------- buy_item
ItemSold(listing_id, nft_id, seller, buyer, price_mist) ==
    [type |-> "ItemSold", listing_id |-> listing_id, nft_id |-> nft_id,
     seller |-> seller, buyer |-> buyer, price_mist |-> price_mist]

\* a payment that reaches the seller without leaving the buyer
pay_without_debit(bal, from, to, value) == [bal EXCEPT ![to] = @ + value]

\* a payment that leaves the buyer and reaches nobody
pay_without_credit(bal, from, to, value) == [bal EXCEPT ![from] = @ - value]

\* public_transfer(payment, seller): the coin leaves the buyer and reaches the seller
pay(bal, from, to, value) ==
    LET taken == [bal EXCEPT ![from] = @ - value]
    IN  [taken EXCEPT ![to] = @ + value]

\* a payment check that only refuses a payment below the price
buy_status_accepts_overpayment(registry, listing, payment) ==
    IF payment < listing.price_mist THEN Abort(EIncorrectPaymentAmount)
    ELSE IF listing.id \notin DOMAIN registry THEN TableAbort
    ELSE OK

\* a payment check that also refuses a payment of nothing
buy_status_refuses_free(registry, listing, payment) ==
    IF ~(payment = listing.price_mist) \/ payment = 0 THEN Abort(EIncorrectPaymentAmount)
    ELSE IF listing.id \notin DOMAIN registry THEN TableAbort
    ELSE OK

\* The status buy_item ends with: its payment assertion, then table::remove.
buy_status(registry, listing, payment) ==
    IF ~(payment = listing.price_mist) THEN Abort(EIncorrectPaymentAmount)
    ELSE IF listing.id \notin DOMAIN registry THEN TableAbort
    ELSE OK

buy_item(sender, listing_obj_id, payment) ==
    LET buyer == sender
        listing == listings[listing_obj_id]
        args == [listing |-> listing_obj_id, payment |-> payment]
        status == buy_status(active_listings, listing, payment)
    IN  IF status # OK
        THEN Fails("buy_item", sender, args, status)
        ELSE /\ active_listings' = MapRemove(active_listings, listing_obj_id)
             /\ active_listing_ids' = remove_listing_id(active_listing_ids, listing_obj_id)
             /\ owned_nfts' = public_transfer(owned_nfts, listing.nft, buyer)
             /\ balance' = pay(balance, buyer, listing.seller, payment)
             /\ listings' = MapRemove(listings, listing_obj_id)
             /\ deleted' = deleted \cup {listing.id}
             /\ Commits(Tx("buy_item", sender, args, OK,
                    <<ItemSold(listing_obj_id, listing.nft_id, listing.seller, buyer,
                              listing.price_mist)>>))
             /\ UNCHANGED <<processed_ids, certificates, admin_cap, published, next_id>>

\* identities of the Listing objects that a buy or a cancel has deleted
ClosedListingIds == (DOMAIN listing_log) \ (DOMAIN listings)

BuyItem ==
    /\ UNCHANGED <<backend, frontend>>
    /\ \E sender \in Accounts :
        \/ \E listing_obj_id \in DOMAIN listings, payment \in 0..balance[sender] :
                buy_item(sender, listing_obj_id, payment)
        \/ \E listing_obj_id \in ClosedListingIds :
                Refused("buy_item", sender, "Listing", listing_obj_id)

\* ------------------------------------------------------- cancel_listing
ListingCancelled(listing_id, nft_id, seller) ==
    [type |-> "ListingCancelled", listing_id |-> listing_id, nft_id |-> nft_id,
     seller |-> seller]

\* a cancel that does not ask who calls it
cancel_status_by_anyone(registry, listing, sender) ==
    IF listing.id \notin DOMAIN registry THEN TableAbort ELSE OK

\* The status cancel_listing ends with: its seller assertion, then table::remove.
cancel_status(registry, listing, sender) ==
    IF ~(sender = listing.seller) THEN Abort(ENotSeller)
    ELSE IF listing.id \notin DOMAIN registry THEN TableAbort
    ELSE OK

cancel_listing(sender, listing_obj_id) ==
    LET listing == listings[listing_obj_id]
        args == [listing |-> listing_obj_id]
        status == cancel_status(active_listings, listing, sender)
    IN  IF status # OK
        THEN Fails("cancel_listing", sender, args, status)
        ELSE /\ active_listings' = MapRemove(active_listings, listing_obj_id)
             /\ active_listing_ids' = remove_listing_id(active_listing_ids, listing_obj_id)
             /\ owned_nfts' = public_transfer(owned_nfts, listing.nft, listing.seller)
             /\ listings' = MapRemove(listings, listing_obj_id)
             /\ deleted' = deleted \cup {listing.id}
             /\ Commits(Tx("cancel_listing", sender, args, OK,
                    <<ListingCancelled(listing_obj_id, listing.nft_id, listing.seller)>>))
             /\ UNCHANGED <<processed_ids, certificates, balance, admin_cap, published,
                            next_id>>

CancelListing ==
    /\ UNCHANGED <<backend, frontend>>
    /\ \E sender \in Accounts :
        \/ \E listing_obj_id \in DOMAIN listings :
                cancel_listing(sender, listing_obj_id)
        \/ \E listing_obj_id \in ClosedListingIds :
                Refused("cancel_listing", sender, "Listing", listing_obj_id)

\* ------------------------------------ buy_item and cancel_listing, by statement
\* what a transaction holds while it runs: the registry, the owned tokens, the
\* balances, the Listing objects, the deleted identities, the events emitted
Holding ==
    [active_listings |-> active_listings, active_listing_ids |-> active_listing_ids,
     owned_nfts |-> owned_nfts, balance |-> balance, listings |-> listings,
     deleted |-> deleted, events |-> <<>>]

\* one statement of the body, after the assertion: call gives the Listing,
\* who receives the token, who pays what, and the event to emit
Statement(name, st, call) ==
    CASE name = "table::remove" ->
            [st EXCEPT !.active_listings = MapRemove(@, call.listing.id)]
      [] name = "vector::swap_remove" ->
            [st EXCEPT !.active_listing_ids = remove_listing_id(@, call.listing.id)]
      [] name = "public_transfer(nft)" ->
            [st EXCEPT !.owned_nfts = public_transfer(@, call.listing.nft, call.nft_to)]
      [] name = "public_transfer(payment)" ->
            [st EXCEPT !.balance = pay(@, call.payer, call.listing.seller, call.payment)]
      [] name = "event::emit" ->
            [st EXCEPT !.events = Append(@, call.event)]
      [] name = "object::delete" ->
            [st EXCEPT !.listings = MapRemove(@, call.listing.id),
                       !.deleted = @ \cup {call.listing.id}]

\* the states after each statement, in order
RECURSIVE Run(_, _, _)
Run(names, st, call) ==
    IF names = <<>> THEN <<>>
    ELSE LET next == Statement(Head(names), st, call)
         IN  <<next>> \o Run(Tail(names), next, call)

\* a buy that hands over the token and the payment before it touches the registry
buy_item_statements_transfer_first ==
    <<"public_transfer(nft)", "public_transfer(payment)", "table::remove",
      "vector::swap_remove", "event::emit", "object::delete">>

\* the statements of buy_item after its payment assertion, in source order
buy_item_statements ==
    <<"table::remove", "vector::swap_remove", "public_transfer(nft)",
      "public_transfer(payment)", "event::emit", "object::delete">>

\* the statements of cancel_listing after its seller assertion, in source order
cancel_listing_statements ==
    <<"table::remove", "vector::swap_remove", "public_transfer(nft)", "event::emit",
      "object::delete">>

buy_item_trace(sender, listing_obj_id, payment) ==
    LET listing == listings[listing_obj_id]
    IN  Run(buy_item_statements, Holding,
            [listing |-> listing, nft_to |-> sender, payer |-> sender,
             payment |-> payment,
             event |-> ItemSold(listing_obj_id, listing.nft_id, listing.seller, sender,
                                listing.price_mist)])

cancel_listing_trace(sender, listing_obj_id) ==
    LET listing == listings[listing_obj_id]
    IN  Run(cancel_listing_statements, Holding,
            [listing |-> listing, nft_to |-> listing.seller, payer |-> sender,
             payment |-> 0,
             event |-> ListingCancelled(listing_obj_id, listing.nft_id, listing.seller)])

\* ---------------------------------------------- get_active_listing_ids
get_active_listing_ids == active_listing_ids

\* ------------------------------------------------ retire_and_bridge_nft
\* decimals of the CarbonCreditToken currency created in init
CarbonTokenDecimals == 0
RECURSIVE Pow10(_)
Pow10(n) == IF n = 0 THEN 1 ELSE 10 * Pow10(n - 1)

\* the remainder prepare_transfer hands back: the part of the amount below the
\* precision the token bridge carries (8 decimals)
dust_of(amount) ==
    LET extra == IF CarbonTokenDecimals > 8 THEN CarbonTokenDecimals - 8 ELSE 0
    IN  amount % Pow10(extra)

\* the coordinators as the call finds them: how the token bridge knows the
\* CarbonCreditToken type, and the message fee the core bridge asks
BridgeEnvs == {[asset |-> "native", message_fee |-> 0],
               [asset |-> "native", message_fee |-> 1],
               [asset |-> "wrapped", message_fee |-> 0],
               [asset |-> "unregistered", message_fee |-> 0]}
EvmRecipients == {<<171, 205>>, <<18, 52>>}
TargetChainIds == {6}

\* a payload that carries the token's category where its quantity belongs
BridgeToErc20Payload_category_as_amount(nft, sui_owner_address, evm_recipient_address, target_evm_chain_id) ==
    [sui_nft_id |-> nft.id, amount_kg_co2e |-> nft.activity_type,
     activity_type |-> nft.activity_type,
     original_verification_id |-> nft.verification_id,
     sui_owner_address |-> sui_owner_address,
     evm_recipient_address |-> evm_recipient_address,
     target_evm_chain_id |-> target_evm_chain_id]

BridgeToErc20Payload(nft, sui_owner_address, evm_recipient_address, target_evm_chain_id) ==
    [sui_nft_id |-> nft.id, amount_kg_co2e |-> nft.amount_kg_co2e,
     activity_type |-> nft.activity_type,
     original_verification_id |-> nft.verification_id,
     sui_owner_address |-> sui_owner_address,
     evm_recipient_address |-> evm_recipient_address,
     target_evm_chain_id |-> target_evm_chain_id]

\* an event that carries the token's category where its quantity belongs
NFTBridgingInitiated_category_as_amount(nft, sui_owner_address, target_chain_id, evm_recipient_address) ==
    [type |-> "NFTBridgingInitiated", sui_nft_id |-> nft.id,
     sui_owner_address |-> sui_owner_address, amount_kg_co2e |-> nft.activity_type,
     target_chain_id |-> target_chain_id,
     evm_recipient_address |-> evm_recipient_address]

NFTBridgingInitiated(nft, sui_owner_address, target_chain_id, evm_recipient_address) ==
    [type |-> "NFTBridgingInitiated", sui_nft_id |-> nft.id,
     sui_owner_address |-> sui_owner_address, amount_kg_co2e |-> nft.amount_kg_co2e,
     target_chain_id |-> target_chain_id,
     evm_recipient_address |-> evm_recipient_address]

\* a mint that issues one unit whatever the value asked
mint_balance_one_unit(total_supply, value) == total_supply + 1

\* a mint that issues twice the value asked
mint_balance_twice(total_supply, value) == total_supply + 2 * value

\* coin::mint_balance(&mut admin_cap.carbon_token_treasury, value)
mint_balance(total_supply, value) == total_supply + value

\* retire_and_bridge_nft without its emitter-capability assertion
bridge_status_no_cap_check(cap, amount_kg_co2e, fee, env) ==
    IF env.asset = "unregistered" THEN ExternalAbort
    ELSE IF env.asset = "wrapped" THEN Abort(ECarbonTokenNotRegistered)
    ELSE IF dust_of(amount_kg_co2e) # 0 THEN ExternalAbort
    ELSE IF fee # env.message_fee THEN ExternalAbort
    ELSE OK

\* The status retire_and_bridge_nft ends with, from its checks in source order.
bridge_status(cap, amount_kg_co2e, fee, env) ==
    IF cap.emitter_cap = NoId THEN Abort(EAdminCapNotInitialized)
    ELSE IF env.asset = "unregistered" THEN ExternalAbort
    ELSE IF env.asset = "wrapped" THEN Abort(ECarbonTokenNotRegistered)
    ELSE IF dust_of(amount_kg_co2e) # 0 THEN ExternalAbort
    ELSE IF fee # env.message_fee THEN ExternalAbort
    ELSE OK

retire_and_bridge_nft(sender, nft_id, evm_recipient_address, target_evm_chain_id, fee, env) ==
         LET nft == owned_nfts[nft_id].nft
             args == [nft |-> nft_id, evm_recipient_address |-> evm_recipient_address,
                      target_evm_chain_id |-> target_evm_chain_id, fee |-> fee,
                      env |-> env]
             status == bridge_status(admin_cap, nft.amount_kg_co2e, fee, env)
             minted == nft.amount_kg_co2e
             custom_payload == BridgeToErc20Payload(nft, sender, evm_recipient_address,
                                                    target_evm_chain_id)
             message == [sequence |-> Len(published), nonce |-> 0,
                         amount |-> minted - dust_of(minted),
                         recipient_chain |-> target_evm_chain_id,
                         recipient |-> evm_recipient_address,
                         payload |-> custom_payload]
         IN  IF status # OK
             THEN Fails("retire_and_bridge_nft", sender, args, status)
             ELSE /\ CanCreate(1)
                  /\ owned_nfts' = take_by_value(owned_nfts, nft_id)
                  /\ admin_cap' = [admin_cap EXCEPT
                         !.total_supply = mint_balance(@, nft.amount_kg_co2e)]
                  \* the Coin wrapping the minted balance is created and consumed here
                  /\ next_id' = next_id + 1
                  /\ deleted' = deleted \cup {nft.id, next_id}
                  /\ published' = Append(published, message)
                  /\ balance' = [balance EXCEPT ![sender] = @ - fee]
                  /\ Commits(Tx("retire_and_bridge_nft", sender, args, OK,
                         <<NFTBridgingInitiated(nft, sender, target_evm_chain_id,
                                                evm_recipient_address)>>))
                  /\ UNCHANGED <<processed_ids, certificates, listings, active_listings,
                                 active_listing_ids>>

RetireAndBridgeNft ==
    /\ UNCHANGED <<backend, frontend>>
    /\ \E sender \in Accounts, nft_id \in LiveNftIds :
        IF ~OwnsNft(sender, nft_id)
        THEN Rejected("retire_and_bridge_nft", sender, "CarbonCreditNFT", nft_id)
        ELSE IF ~HoldsAdminCap(sender)
        THEN Rejected("retire_and_bridge_nft", sender, "AdminCap", admin_cap.id)
        ELSE \E rcpt \in EvmRecipients, chain \in TargetChainIds, env \in BridgeEnvs,
                fee \in 0..balance[sender] :
                retire_and_bridge_nft(sender, nft_id, rcpt, chain, fee, env)

\* ------------------------------------------------------ sui::bcs::to_bytes
\* Bytes are numbers in 0..255; a byte string is a sequence of them.
Zeros(n) == [i \in 1..n |-> 0]

\* fixed-width integers, least significant byte first (BCS) and most
\* significant byte first (ABI)
RECURSIVE LittleEndian(_, _)
LittleEndian(n, width) ==
    IF width = 0 THEN <<>> ELSE <<n % 256>> \o LittleEndian(n \div 256, width - 1)

RECURSIVE BigEndian(_, _)
BigEndian(n, width) ==
    IF width = 0 THEN <<>> ELSE BigEndian(n \div 256, width - 1) \o <<n % 256>>

\* The 32 bytes of an object ID and of a Sui address. Both are digests: the
\* model's short identities stand in their last byte, under a leading byte
\* that is not zero.
IdBytes(id) == <<1>> \o Zeros(30) \o <<id>>
AccountIndex(a) == IF a = "admin" THEN 1 ELSE 2
SuiAddressBytes(a) == <<160>> \o Zeros(30) \o <<AccountIndex(a)>>

\* vector<u8>: the length as ULEB128 (one byte below 128), then the bytes
BcsVector(bytes) == <<Len(bytes)>> \o bytes

\* sui::bcs::to_bytes(&custom_payload): the fields in declaration order
bcs_to_bytes(payload) ==
    IdBytes(payload.sui_nft_id)
      \o LittleEndian(payload.amount_kg_co2e, 8)
      \o <<payload.activity_type>>
      \o BcsVector(payload.original_verification_id)
      \o SuiAddressBytes(payload.sui_owner_address)
      \o BcsVector(payload.evm_recipient_address)
      \o LittleEndian(payload.target_evm_chain_id, 2)

\* ------------------------------------------------------------ abi.decode
\* the 32-byte word that starts offset bytes into the data
WordAt(data, offset) == SubSeq(data, offset + 1, offset + 32)

\* a word holds a value of the given width when the bytes above it are zero
FitsIn(word, width) == \A i \in 1..(32 - width) : word[i] = 0

\* the number a word holds, read from its last three bytes; a word with a
\* byte set above them holds more than any length met here
TooLarge == 16777216
AsUint(word) ==
    IF FitsIn(word, 3) THEN word[30] * 65536 + word[31] * 256 + word[32] ELSE TooLarge

Reverted(reason) == [status |-> "reverted", reason |-> reason]

\* abi.decode(data, (BridgeToErc20Payload)): the struct is dynamic (it has a
\* bytes member), so the data starts with the offset of the struct; the
\* struct is seven words (the bytes member as an offset from the struct's
\* start), and the bytes member is a length word and the bytes. Every read
\* past the end of the data and every value wider than its type reverts.
abi_decode(data) ==
    IF Len(data) < 32 THEN Reverted("abi.decode")
    ELSE LET at == AsUint(WordAt(data, 0))
         IN  IF at + 224 > Len(data) THEN Reverted("abi.decode")
    ELSE LET word(i) == WordAt(data, at + 32 * i)
             tail == AsUint(word(3))
         IN  IF \/ ~FitsIn(word(1), 8)
                \/ ~FitsIn(word(2), 1)
                \/ ~FitsIn(word(4), 20)
                \/ ~FitsIn(word(5), 20)
                \/ ~FitsIn(word(6), 2)
                \/ at + tail + 32 > Len(data)
             THEN Reverted("abi.decode")
    ELSE LET length == AsUint(WordAt(data, at + tail))
         IN  IF at + tail + 32 + length > Len(data) THEN Reverted("abi.decode")
    ELSE [status |-> "ok",
          payload |->
            [sui_nft_id |-> word(0),
             amount_kg_co2e |-> AsUint(word(1)),
             activity_type |-> AsUint(word(2)),
             original_verification_id |->
                 SubSeq(data, at + tail + 33, at + tail + 32 + length),
             sui_owner_address |-> SubSeq(word(4), 13, 32),
             evm_recipient_address |-> SubSeq(word(5), 13, 32),
             target_evm_chain_id |-> AsUint(word(6))]]

\* abi.encode of a BridgeToErc20Payload as the receiver declares it
abi_encode(payload) ==
    LET bytes == payload.original_verification_id
        padding == (32 - (Len(bytes) % 32)) % 32
    IN  BigEndian(32, 32)
          \o payload.sui_nft_id
          \o BigEndian(payload.amount_kg_co2e, 32)
          \o BigEndian(payload.activity_type, 32)
          \o BigEndian(224, 32)
          \o Zeros(12) \o payload.sui_owner_address
          \o Zeros(12) \o payload.evm_recipient_address
          \o BigEndian(payload.target_evm_chain_id, 32)
          \o BigEndian(Len(bytes), 32)
          \o bytes \o Zeros(padding)

\* ------------------------------------------------- receiveAndProcessVAA
\* the constructor's arguments: the Wormhole chain id of Sui and the emitter
\* the receiver listens to
suiChainId == 21
suiEmitterAddress == "sui emitter"

\* The VAAs a caller can hand in, as parseAndVerifyVM reports them: whether
\* the guardians' signatures hold, the emitter, the sequence, the payload.
VAA(valid, chain, emitter, sequence, payload) ==
    [valid |-> valid, emitterChainId |-> chain, emitterAddress |-> emitter,
     sequence |-> sequence, payload |-> payload]

\* every message retire_and_bridge_nft has published, relayed with the
\* payload bytes it serialized
PublishedVAAs ==
    {VAA(TRUE, suiChainId, suiEmitterAddress, published[i].sequence,
         bcs_to_bytes(published[i].payload)) : i \in 1..Len(published)}

\* messages whose payload is laid out as the receiver declares it
MaxSequence == 1
AbiPayloads ==
    {[sui_nft_id |-> IdBytes(2), amount_kg_co2e |-> a, activity_type |-> 1,
      original_verification_id |-> <<86, 1>>,
      sui_owner_address |-> Zeros(19) \o <<1>>,
      evm_recipient_address |-> Zeros(18) \o <<171, 205>>,
      target_evm_chain_id |-> 6] : a \in {2}}
AbiVAAs ==
    {VAA(TRUE, suiChainId, suiEmitterAddress, sequence, abi_encode(payload)) :
        sequence \in 0..MaxSequence, payload \in AbiPayloads}

\* messages that fail one of the first three checks
ForeignVAAs ==
    LET payload == abi_encode(CHOOSE p \in AbiPayloads : TRUE)
    IN  {VAA(FALSE, suiChainId, suiEmitterAddress, 0, payload),
         VAA(TRUE, 2, suiEmitterAddress, 0, payload),
         VAA(TRUE, suiChainId, "another emitter", 0, payload)}

TokensMintedFromSuiNFT(suiNftId, evmRecipient, erc20Amount, suiAmountKgCo2e) ==
    [type |-> "TokensMintedFromSuiNFT", suiNftId |-> suiNftId,
     evmRecipient |-> evmRecipient, erc20Amount |-> erc20Amount,
     suiAmountKgCo2e |-> suiAmountKgCo2e]

\* a receiver that never records the sequence it has processed
mark_processed_never(processedVAAs, sequence) == processedVAAs

\* processedVAAs[vm.sequence] = true
mark_processed(processedVAAs, sequence) == processedVAAs \cup {sequence}

MapGet(f, k) == IF k \in DOMAIN f THEN f[k] ELSE 0

\* The outcome of receiveAndProcessVAA, from its checks in source order.
\* erc20_mints says whether carbonERC20.mint goes through (the token is
\* another contract, which may refuse the receiver or the recipient).
receive_status(processedVAAs, vm, erc20_mints) ==
    IF ~vm.valid THEN Reverted("invalid VAA")
    ELSE IF vm.emitterChainId # suiChainId THEN Reverted("Invalid emitter chain")
    ELSE IF vm.emitterAddress # suiEmitterAddress THEN Reverted("Invalid emitter address")
    ELSE IF vm.sequence \in processedVAAs THEN Reverted("VAA already processed")
    ELSE IF abi_decode(vm.payload).status # "ok" THEN abi_decode(vm.payload)
    ELSE IF ~erc20_mints THEN Reverted("ERC20 mint")
    ELSE [status |-> "ok", reason |-> ""]

\* A revert undoes every write of the call, the mark on the sequence included.
\* Amounts of the ERC20 are counted in units of 10**18.
receiveAndProcessVAA(vm, erc20_mints) ==
    LET outcome == receive_status(receiver.processedVAAs, vm, erc20_mints)
        payload == abi_decode(vm.payload).payload
        erc20AmountToMint == payload.amount_kg_co2e
    IN  IF outcome.status # "ok"
        THEN /\ receiver' = receiver
             /\ evm_call' = [evm_call EXCEPT
                    !.last = [op |-> "receiveAndProcessVAA", vm |-> vm,
                              status |-> outcome.status, reason |-> outcome.reason,
                              events |-> <<>>]]
        ELSE /\ receiver' =
                    [processedVAAs |-> mark_processed(receiver.processedVAAs, vm.sequence),
                     balanceOf |-> MapPut(receiver.balanceOf, payload.evm_recipient_address,
                                     MapGet(receiver.balanceOf, payload.evm_recipient_address)
                                       + erc20AmountToMint)]
             /\ evm_call' =
                    [last |-> [op |-> "receiveAndProcessVAA", vm |-> vm,
                               status |-> "ok", reason |-> "",
                               events |-> <<TokensMintedFromSuiNFT(payload.sui_nft_id,
                                               payload.evm_recipient_address,
                                               erc20AmountToMint,
                                               payload.amount_kg_co2e)>>],
                     mints |-> MapPut(evm_call.mints, vm.sequence,
                                  MapGet(evm_call.mints, vm.sequence) + 1)]

ReceiveAndProcessVAA ==
    /\ \E vm \in PublishedVAAs \cup AbiVAAs \cup ForeignVAAs, erc20_mints \in BOOLEAN :
          receiveAndProcessVAA(vm, erc20_mints)
    /\ UNCHANGED <<ledger, last_tx, backend, frontend>>

\* ------------------------------------------- POST /request-attestation
EXPECTED_ACTION_TYPE_TRANSPORT == "SUSTAINABLE_TRANSPORT_KM"
ACTIVITY_CODE_CYCLING == 1
ACTIVITY_CODE_WALKING == 2
\* EMISSION_FACTOR_*_PER_KM (0.015 and 0.020 kg per km), in grams per km
GRAMS_CYCLING_PER_KM == 15
GRAMS_WALKING_PER_KM == 20
minDistanceKm == 5

\* a field that is missing from the body, and a missing (null) distance
Missing == ""
NoDistance == -1

\* what the vision model answers about the image
AiAnswers ==
    {[activityType |-> "cycling", distanceKm |-> 5],
     [activityType |-> "walking", distanceKm |-> 5],
     [activityType |-> "cycling", distanceKm |-> 4],
     [activityType |-> "other", distanceKm |-> 5],
     [activityType |-> "cycling", distanceKm |-> NoDistance],
     [activityType |-> Missing, distanceKm |-> 5]}

\* the request bodies offered to the server
AttestationRequests ==
    {[actionType |-> EXPECTED_ACTION_TYPE_TRANSPORT, userAddress |-> u,
      imageBase64 |-> "image", ai |-> ai] : u \in Accounts, ai \in AiAnswers}
    \cup {[actionType |-> Missing, userAddress |-> "alice", imageBase64 |-> "image",
           ai |-> [activityType |-> "cycling", distanceKm |-> 5]],
          [actionType |-> EXPECTED_ACTION_TYPE_TRANSPORT, userAddress |-> Missing,
           imageBase64 |-> "image", ai |-> [activityType |-> "cycling", distanceKm |-> 5]],
          [actionType |-> "OTHER_ACTION", userAddress |-> "alice", imageBase64 |-> "image",
           ai |-> [activityType |-> "cycling", distanceKm |-> 5]],
          [actionType |-> EXPECTED_ACTION_TYPE_TRANSPORT, userAddress |-> "alice",
           imageBase64 |-> Missing, ai |-> [activityType |-> "cycling", distanceKm |-> 5]]}

\* verifyTransportWithVision, from the parsed answer on
verifyTransportWithVision(ai) ==
    IF ai.activityType = Missing
    THEN [success |-> FALSE, distance |-> NoDistance, activityType |-> ai.activityType]
    ELSE IF ai.activityType = "other"
    THEN [success |-> FALSE, distance |-> ai.distanceKm, activityType |-> ai.activityType]
    ELSE IF ai.activityType # "cycling" /\ ai.activityType # "walking"
    THEN [success |-> FALSE, distance |-> ai.distanceKm, activityType |-> ai.activityType]
    ELSE IF ai.distanceKm = NoDistance
    THEN [success |-> FALSE, distance |-> NoDistance, activityType |-> ai.activityType]
    ELSE IF ai.distanceKm < minDistanceKm
    THEN [success |-> FALSE, distance |-> ai.distanceKm, activityType |-> ai.activityType]
    ELSE [success |-> TRUE, distance |-> ai.distanceKm, activityType |-> ai.activityType]

\* The handler up to the minting parameters: the response it returns early
\* with, or the parameters of the mint.
attestation_check(request) ==
    LET visionResult == verifyTransportWithVision(request.ai)
        distanceKm == visionResult.distance
        activityCode == IF visionResult.activityType = "cycling"
                        THEN ACTIVITY_CODE_CYCLING ELSE ACTIVITY_CODE_WALKING
        amountGramsCo2e == distanceKm * (IF visionResult.activityType = "cycling"
                                         THEN GRAMS_CYCLING_PER_KM
                                         ELSE GRAMS_WALKING_PER_KM)
    IN  IF request.actionType = Missing \/ request.userAddress = Missing
        THEN [passed |-> FALSE, response |-> 400]
        ELSE IF request.actionType # EXPECTED_ACTION_TYPE_TRANSPORT
        THEN [passed |-> FALSE, response |-> 400]
        ELSE IF request.imageBase64 = Missing
        THEN [passed |-> FALSE, response |-> 400]
        ELSE IF ~visionResult.success \/ distanceKm = NoDistance
                  \/ visionResult.activityType = Missing
        THEN [passed |-> FALSE, response |-> 400]
        ELSE IF visionResult.activityType \notin {"cycling", "walking"}
        THEN [passed |-> FALSE, response |-> 400]
        ELSE IF amountGramsCo2e <= 0
        THEN [passed |-> FALSE, response |-> 400]
        ELSE [passed |-> TRUE, distanceKm |-> distanceKm, activityCode |-> activityCode,
              amountGramsCo2e |-> amountGramsCo2e]

\* crypto.createHash('sha256').update(data).digest(): a digest, taken to be
\* different for different data
sha256(data) == <<"sha256", data>>

\* `${userAddress}-${Date.now()}-${distanceKm}-${activityCode}`, hashed
verification_id_of(userAddress, now, distanceKm, activityCode) ==
    sha256(<<userAddress, now, distanceKm, activityCode>>)

\* requests the server handles in a run, and the last value of its clock
MaxRequests == 3
MaxClock == 1

\* every reference the server can produce
AttesterReferences ==
    {verification_id_of(u, now, d, c) :
        u \in Accounts, now \in 0..MaxClock, d \in {minDistanceKm},
        c \in {ACTIVITY_CODE_CYCLING, ACTIVITY_CODE_WALKING}}

\* One request, from the body to the response. The mint is the transaction
\* the server signs with the deployer's key; when that transaction fails the
\* response depends on whether the client raises the failure.
RequestAttestation ==
    /\ Len(attestations) < MaxRequests
    /\ \E request \in AttestationRequests :
          LET check == attestation_check(request)
          IN  IF ~check.passed
              THEN /\ attestations' = Append(attestations,
                          [request |-> request, now |-> clock, passed |-> FALSE,
                           mints |-> <<>>, response |-> check.response])
                   /\ UNCHANGED <<ledger, last_tx, evm>>
              ELSE LET verificationIdBytes ==
                           verification_id_of(request.userAddress, clock,
                                              check.distanceKm, check.activityCode)
                   IN  /\ IF HoldsAdminCap(Deployer)
                          THEN mint_nft(Deployer, request.userAddress,
                                        check.amountGramsCo2e, check.activityCode,
                                        verificationIdBytes)
                          ELSE Rejected("mint_nft", Deployer, "AdminCap", admin_cap.id)
                       /\ \E response \in {200, 500} :
                             /\ last_tx'.status = OK => response = 200
                             /\ attestations' = Append(attestations,
                                    [request |-> request, now |-> clock, passed |-> TRUE,
                                     mints |-> <<verificationIdBytes>>,
                                     response |-> response])
    /\ UNCHANGED <<clock, frontend>>

\* time passes at the server
Tick ==
    /\ clock < MaxClock
    /\ clock' = clock + 1
    /\ UNCHANGED <<ledger, last_tx, evm, attestations, frontend>>

\* ------------------------------------------------------------ the web client
\* setInterval(..., 3000) and timeoutDuration = 60000 of the polling effects
pollIntervalMs == 3000
timeoutDuration == 60000

MaxInFlight == 2     \* getTransactionBlock requests an effect may have outstanding
MaxCoins == 3        \* coin objects a getCoins response may list

\* a transaction that runs out of its gas budget: it is recorded as failed
InsufficientGas == [outcome |-> "aborted: insufficient gas", code |-> 0]

Toast(level, text) == [level |-> level, text |-> text]
Remove(seq, i) == SubSeq(seq, 1, i - 1) \o SubSeq(seq, i + 1, Len(seq))
ClientOnly == UNCHANGED <<ledger, last_tx, evm, backend>>

\* fields?.name of a fetched Move object: missing when the struct has no such field
Field(fields, name) == IF name \in DOMAIN fields THEN Some(fields[name]) ELSE None

\* what fetchListings keeps of one Listing object
ListingData(listingId) ==
    LET fields == listings[listingId]
    IN  [id |-> listingId,
         nftId |-> fields.nft_id,
         price_micro_iota |-> Field(fields, "price_micro_iota"),
         seller |-> Field(fields, "seller")]

\* fetchListings: the Listings the registry's index names, read one by one
fetchListings ==
    LET ids == {active_listing_ids[i] : i \in 1..Len(active_listing_ids)} \cap DOMAIN listings
    IN  [l \in ids |-> ListingData(l)]

\* fetchOwnedNfts: the tokens the account owns
fetchOwnedNfts(account) == {id \in DOMAIN owned_nfts : owned_nfts[id].owner = account}

\* BigInt(listing.price_micro_iota || '0')
requiredAmount(listing) ==
    IF listing.price_micro_iota = None THEN 0 ELSE listing.price_micro_iota[1]

\* the coin objects a wallet holding total may list, and what fetchUserCoins
\* returns: the list, or [] when the request fails
RECURSIVE Sum(_)
Sum(s) == IF s = <<>> THEN 0 ELSE Head(s) + Sum(Tail(s))
CoinLists(total) ==
    {coins \in UNION {[1..n -> 0..total] : n \in 0..MaxCoins} : Sum(coins) = total}
fetchUserCoins(total) == CoinLists(total) \cup {<<>>}

\* .sort((a, b) => Number(b.balanceBigInt - a.balanceBigInt))
RECURSIVE SortDescending(_)
SortDescending(coins) ==
    IF coins = <<>> THEN <<>>
    ELSE LET i == CHOOSE i \in 1..Len(coins) :
                      /\ \A j \in 1..Len(coins) : coins[j] <= coins[i]
                      /\ \A j \in 1..(i - 1) : coins[j] < coins[i]
         IN  <<coins[i]>> \o SortDescending(Remove(coins, i))

\* the loop over sortedCoins: the first coin that covers the amount
RECURSIVE FirstCovering(_, _)
FirstCovering(sortedCoins, amount) ==
    IF sortedCoins = <<>> THEN [type |-> "none", why |-> "no single coin"]
    ELSE IF Head(sortedCoins) >= amount
         THEN IF Head(sortedCoins) = amount
              THEN [type |-> "object", balance |-> Head(sortedCoins)]
              ELSE [type |-> "split", balance |-> Head(sortedCoins), amount |-> amount]
         ELSE FirstCovering(Tail(sortedCoins), amount)

\* the payment handleBuy prepares from the coins it fetched
paymentCoinInput(currentCoins, amount) ==
    IF Len(currentCoins) = 0 THEN [type |-> "none", why |-> "no coins"]
    ELSE IF Len(currentCoins) = 1 THEN [type |-> "none", why |-> "one coin"]
    ELSE FirstCovering(SortDescending(currentCoins), amount)

\* the value of the coin passed to buy_item: the coin itself, or what
\* tx.splitCoins takes off it
paymentCoinArg(input) == IF input.type = "split" THEN input.amount ELSE input.balance

\* isPending of useSignAndExecuteTransaction, and the flags that disable the buttons
isTxPending == \E i \in 1..Len(calls) : calls[i].at = "signAndExecuteTransaction"
isProcessing ==
    \/ page.acting["buy"] # NoId
    \/ page.acting["cancel"] # NoId
    \/ isTxPending
    \/ page.waiting["buy"]
    \/ page.waiting["cancel"]
isMyListing(listing) == Some(page.account) = listing.seller
buyButtonDisabled(listing) == isProcessing \/ isMyListing(listing)
cancelButtonDisabled(listing) == isProcessing \/ ~isMyListing(listing)

\* the dependencies of a polling effect
Deps(e) ==
    IF KindOf(e) = "retire"
    THEN <<page.digest["retire"], page.waiting["retire"], page.acting["retire"]>>
    ELSE <<page.digest[KindOf(e)], page.waiting[KindOf(e)]>>

Mounted(e) == RouteOf(KindOf(e)) = page.route

\* React has committed the last state update and run the effects it changed:
\* the buttons on screen are those of the state, and a click is handled only
\* after pending effects are flushed
Committed == \A e \in Effects : Mounted(e) => effects[e].deps = Deps(e)

\* no getTransactionBlock request of an earlier poll is outstanding: the user
\* clicks again only after the answers to an ended poll have come in
Quiet == \A e \in Effects : effects[e].requests = EmptyBag

\* handleBuy up to its await of fetchUserCoins
handleBuy(listing) ==
    IF page.acting["buy"] # NoId \/ isTxPending
    THEN UNCHANGED frontend
    ELSE IF Some(page.account) = listing.seller
    THEN /\ toast' = <<Toast("warning", "You cannot buy your own listing.")>>
         /\ UNCHANGED <<page, calls, effects>>
    ELSE /\ page' = [page EXCEPT !.acting["buy"] = listing.id,
                                 !.digest["buy"] = undefined,
                                 !.waiting["buy"] = FALSE]
         /\ calls' = Append(calls, [op |-> "handleBuy", at |-> "fetchUserCoins",
                                    kind |-> "buy", listing |-> listing])
         /\ toast' = <<>>
         /\ UNCHANGED effects

\* a click on an enabled Buy Now button
HandleBuy ==
    /\ page.route = "marketplace"
    /\ Committed
    /\ Quiet
    /\ \E l \in DOMAIN page.listings :
          /\ ~buyButtonDisabled(page.listings[l])
          /\ handleBuy(page.listings[l])
    /\ ClientOnly

\* handleBuy from the answer of fetchUserCoins to signAndExecuteTransaction
BuyWithCoins ==
    /\ \E i \in 1..Len(calls), currentCoins \in fetchUserCoins(balance[page.account]) :
          LET call == calls[i]
              input == paymentCoinInput(currentCoins, requiredAmount(call.listing))
          IN  /\ call.at = "fetchUserCoins"
              /\ IF input.type = "none"
                 THEN /\ toast' = <<Toast("error", input.why)>>
                      /\ page' = [page EXCEPT !.acting["buy"] = NoId]
                      /\ calls' = Remove(calls, i)
                 ELSE /\ toast' = <<Toast("info", "Submitting buy transaction")>>
                      /\ calls' = [calls EXCEPT ![i] =
                            [op |-> "handleBuy", at |-> "signAndExecuteTransaction",
                             kind |-> "buy",
                             tx |-> [object |-> call.listing.id,
                                     payment |-> paymentCoinArg(input),
                                     input |-> input.type,
                                     amount |-> requiredAmount(call.listing)]]]
                      /\ UNCHANGED page
    /\ UNCHANGED effects
    /\ ClientOnly

\* a click on an enabled Cancel Listing button: handleCancelListing
HandleCancelListing ==
    /\ page.route = "marketplace"
    /\ Committed
    /\ Quiet
    /\ \E l \in DOMAIN page.listings :
          LET listing == page.listings[l]
          IN  /\ ~cancelButtonDisabled(listing)
              /\ IF page.acting["cancel"] # NoId \/ isTxPending
                 THEN UNCHANGED frontend
                 ELSE IF Some(page.account) # listing.seller
                 THEN /\ toast' = <<Toast("warning", "You cannot cancel a listing that is not yours.")>>
                      /\ UNCHANGED <<page, calls, effects>>
                 ELSE /\ page' = [page EXCEPT !.acting["cancel"] = listing.id,
                                              !.digest["cancel"] = undefined,
                                              !.waiting["cancel"] = FALSE]
                      /\ calls' = Append(calls,
                            [op |-> "handleCancelListing", at |-> "signAndExecuteTransaction",
                             kind |-> "cancel", tx |-> [object |-> listing.id]])
                      /\ toast' = <<Toast("info", "Preparing to cancel listing")>>
                      /\ UNCHANGED effects
    /\ ClientOnly

\* a click on Retire: handleRetire
HandleRetire ==
    /\ page.route = "my-assets"
    /\ Committed
    /\ Quiet
    /\ \E nftId \in page.nfts :
          IF page.acting["retire"] # NoId
          THEN UNCHANGED frontend
          ELSE /\ page' = [page EXCEPT !.acting["retire"] = nftId,
                                       !.digest["retire"] = undefined,
                                       !.waiting["retire"] = FALSE]
               /\ calls' = Append(calls,
                     [op |-> "handleRetire", at |-> "signAndExecuteTransaction",
                      kind |-> "retire", tx |-> [object |-> nftId]])
               /\ toast' = <<Toast("info", "Preparing to retire NFT")>>
               /\ UNCHANGED effects
    /\ ClientOnly

\* the transaction of a call can be built: its object exists for the sender
CanSubmit(call, sender) ==
    CASE call.kind = "buy" ->
            /\ call.tx.object \in DOMAIN listings
            /\ balance[sender] >= call.tx.payment
      [] call.kind = "cancel" -> call.tx.object \in DOMAIN listings
      [] call.kind = "retire" -> OwnsNft(sender, call.tx.object)

\* the ledger executes the transaction of a call, or the transaction runs
\* out of gas
Executes(call, sender) ==
    CASE call.kind = "buy" ->
            \/ buy_item(sender, call.tx.object, call.tx.payment)
            \/ Fails("buy_item", sender,
                     [listing |-> call.tx.object, payment |-> call.tx.payment],
                     InsufficientGas)
      [] call.kind = "cancel" ->
            \/ cancel_listing(sender, call.tx.object)
            \/ Fails("cancel_listing", sender, [listing |-> call.tx.object],
                     InsufficientGas)
      [] call.kind = "retire" ->
            \/ retire_nft(sender, call.tx.object)
            \/ Fails("retire_nft", sender, [nft |-> call.tx.object], InsufficientGas)

\* signAndExecuteTransaction settles: the wallet has the transaction executed
\* and onSuccess gets its digest, or nothing is executed and onError runs
SignAndExecute ==
    \E i \in 1..Len(calls) :
       LET call == calls[i]
       IN  /\ call.at = "signAndExecuteTransaction"
           /\ calls' = Remove(calls, i)
           /\ UNCHANGED <<backend, effects>>
           /\ \/ /\ CanSubmit(call, page.account)
                 /\ Executes(call, page.account)
                 /\ page' = [page EXCEPT
                        !.digest[call.kind] =
                            IF last_tx'.status = OK THEN "success" ELSE "failure",
                        !.waiting[call.kind] = TRUE]
                 /\ toast' = <<Toast("success", "transaction submitted")>>
              \/ /\ UNCHANGED <<ledger, last_tx, evm>>
                 /\ page' = [page EXCEPT !.acting[call.kind] = NoId]
                 /\ toast' = <<Toast("error", "transaction was not submitted")>>

\* the body of a polling effect: it sets an interval if the page is waiting
\* for a digest; requests are those still outstanding from earlier runs
StartPolling(e, requests) ==
    [armed |-> ~(page.digest[KindOf(e)] = undefined \/ ~page.waiting[KindOf(e)]),
     elapsed |-> 0,
     digest |-> page.digest[KindOf(e)],
     deps |-> Deps(e),
     requests |-> requests]

\* the outstanding requests of an effect, as a bag, once the interval that
\* made them is cleared
RECURSIVE Outlived(_)
Outlived(requests) ==
    IF requests = EmptyBag THEN EmptyBag
    ELSE LET r == CHOOSE r \in BagToSet(requests) : TRUE
             n == CopiesIn(r, requests)
             rest == [x \in BagToSet(requests) \ {r} |-> requests[x]]
         IN  Outlived(rest) (+) [x \in {[r EXCEPT !.live = FALSE]} |-> n]

\* an effect whose dependencies changed: its cleanup clears the interval, then
\* its body runs again
Rerun(e) ==
    StartPolling(e, Outlived(effects[e].requests))

\* React commits the state updates and runs the effects whose dependencies changed
RunEffects ==
    /\ ~Committed
    /\ effects' = [e \in Effects |->
                      IF Mounted(e) /\ effects[e].deps # Deps(e)
                      THEN Rerun(e) ELSE effects[e]]
    /\ toast' = <<>>
    /\ UNCHANGED <<page, calls>>
    /\ ClientOnly

\* the buy poll at line 357 asks for no effects; the poll of retire leaves
\* its interval to the cleanup and keeps the digest
showEffects(e) == e # "buy@357"
clearsInterval(e) == KindOf(e) # "retire"

TimeoutToast(kind) ==
    CASE kind = "buy" -> Toast("warning", "Purchase confirmation timed out. Please check explorer.")
      [] kind = "cancel" -> Toast("warning", "Cancellation confirmation timed out. Please check explorer.")
      [] kind = "retire" -> Toast("error", "Timeout waiting for retirement confirmation")
SuccessToast(kind) ==
    CASE kind = "buy" -> Toast("success", "Item purchased successfully!")
      [] kind = "cancel" -> Toast("success", "Listing cancelled successfully!")
      [] kind = "retire" -> Toast("success", "retired successfully!")
FailureToast(kind) ==
    CASE kind = "buy" -> Toast("error", "Purchase transaction failed")
      [] kind = "cancel" -> Toast("error", "Cancellation transaction failed")
      [] kind = "retire" -> Toast("error", "Retirement failed")

\* the page stops waiting for the transaction of a kind
StopsWaiting(e) ==
    [page EXCEPT !.waiting[KindOf(e)] = FALSE,
                 !.digest[KindOf(e)] = IF clearsInterval(e) THEN undefined ELSE @,
                 !.acting[KindOf(e)] = NoId]

\* the two buy effects start in the same commit and set equal intervals: the
\* timers fire in the order they were set, line 357 before line 602
InTurn(e) ==
    CASE e = "buy@357" ->
            effects["buy@602"].armed => effects[e].elapsed <= effects["buy@602"].elapsed
      [] e = "buy@602" ->
            effects["buy@357"].armed => effects[e].elapsed < effects["buy@357"].elapsed
      [] OTHER -> TRUE

\* the interval of an effect fires: the callback gives up when more than
\* timeoutDuration has passed since the effect started, and else asks for the
\* transaction; late says the timer fired later than it was set for
PollTick(e) ==
    /\ effects[e].armed
    /\ InTurn(e)
    /\ \E late \in BOOLEAN :
          LET now == effects[e].elapsed + pollIntervalMs
              sinceStart == IF late THEN now + 1 ELSE now
          IN  IF sinceStart > timeoutDuration
              THEN /\ toast' = <<TimeoutToast(KindOf(e))>>
                   /\ page' = StopsWaiting(e)
                   /\ effects' = [effects EXCEPT ![e].armed = ~clearsInterval(e)]
              ELSE /\ BagCardinality(effects[e].requests) < MaxInFlight
                   /\ effects' = [effects EXCEPT
                          ![e].elapsed = now,
                          ![e].requests = @ (+) SetToBag({[digest |-> effects[e].digest,
                                                           live |-> TRUE]})]
                   /\ toast' = <<>>
                   /\ UNCHANGED page
    /\ UNCHANGED calls
    /\ ClientOnly

\* what a getTransactionBlock request can settle with: it throws, or it
\* returns the transaction, with its status only if effects were asked for
Settled(e, request) ==
    {"throws", IF showEffects(e) THEN request.digest ELSE undefined}

\* a getTransactionBlock request settles and the callback that awaited it
\* goes on: clearInterval acts on the interval the callback belongs to
PollResponse(e) ==
    /\ \E request \in BagToSet(effects[e].requests) :
          LET settled == effects[e].requests (-) SetToBag({request})
              stops == [effects EXCEPT
                           ![e].requests = settled,
                           ![e].armed = IF clearsInterval(e) /\ request.live
                                        THEN FALSE ELSE @]
          IN  \E status \in Settled(e, request) :
                 CASE status = "success" ->
                        /\ toast' = <<SuccessToast(KindOf(e))>>
                        /\ effects' = stops
                        /\ page' = [StopsWaiting(e) EXCEPT
                              !.listings = IF page.route = "marketplace"
                                           THEN fetchListings ELSE @,
                              !.nfts = IF page.route = "my-assets"
                                       THEN fetchOwnedNfts(page.account) ELSE @]
                   [] status = "failure" ->
                        /\ toast' = <<FailureToast(KindOf(e))>>
                        /\ effects' = stops
                        /\ page' = StopsWaiting(e)
                   [] OTHER ->
                        /\ toast' = <<>>
                        /\ effects' = [effects EXCEPT ![e].requests = settled]
                        /\ UNCHANGED page
    /\ UNCHANGED calls
    /\ ClientOnly

Next ==
    \/ MintNft
    \/ RetireNft
    \/ FreezeMyCertificate
    \/ SetupBridgeAdmin
    \/ RetireAndBridgeNft
    \/ ListItem
    \/ BuyItem
    \/ CancelListing

Spec == Init /\ [][Next]_vars

\* ------------------------------------------------------ marketplace runs
\* Trading after the admin has minted MarketTokens tokens, one per
\* verification reference, to any of the accounts: the state those mint_nft
\* transactions leave, and from there every order of list, buy and cancel.
MarketNftIds == 2..(1 + MarketTokens)
MarketVerificationId(id) == <<86, id - 1>>
MarketNft(id) ==
    CarbonCreditNFT(id, 1 + (id % 2), ActivityOf(1 + (id % 2)), MarketVerificationId(id))

InitMarket ==
    /\ processed_ids = {MarketVerificationId(id) : id \in MarketNftIds}
    /\ \E owner_of \in [MarketNftIds -> Accounts] :
          /\ owned_nfts = [id \in MarketNftIds |->
                              [nft |-> MarketNft(id), owner |-> owner_of[id]]]
          /\ last_tx = Tx("mint_nft", Deployer,
                   [recipient |-> owner_of[1 + MarketTokens],
                    amount_kg_co2e |-> MarketNft(1 + MarketTokens).amount_kg_co2e,
                    activity_type |-> MarketNft(1 + MarketTokens).activity_type,
                    verification_id |-> MarketVerificationId(1 + MarketTokens)],
                   OK,
                   <<MintNFTEvent(1 + MarketTokens, owner_of[1 + MarketTokens],
                                  MarketNft(1 + MarketTokens).amount_kg_co2e,
                                  MarketVerificationId(1 + MarketTokens))>>)
    /\ certificates = EmptyMap
    /\ listings = EmptyMap
    /\ active_listings = EmptyMap
    /\ active_listing_ids = <<>>
    /\ balance = InitialBalance
    /\ admin_cap = [id |-> 1,
                    owner |-> Deployer,
                    wormhole_state_id |-> NoId,
                    token_bridge_state_id |-> NoId,
                    emitter_cap |-> NoId,
                    total_supply |-> 0]
    /\ published = <<>>
    /\ deleted = {}
    /\ next_id = 2 + MarketTokens
    /\ mint_count = [r \in {MarketVerificationId(id) : id \in MarketNftIds} |-> 1]
    /\ event_count = [t \in EventTypes |-> IF t = "MintNFTEvent" THEN MarketTokens ELSE 0]
    /\ listing_log = EmptyMap
    /\ id_limit = 1 + 2 * MarketTokens
    /\ InitEvm
    /\ InitBackend
    /\ InitFrontend

NextMarket ==
    \/ ListItem
    \/ BuyItem
    \/ CancelListing

SpecMarket == InitMarket /\ [][NextMarket]_vars

\* ------------------------------------------------------------ client runs
\* A page of the client opened by an account after three tokens were minted:
\* the other account has listed the first, the account has listed the second
\* and owns the third; the page has fetched its data and run its effects.
ShopNftIds == {2, 3, 4}
InitClient ==
    /\ processed_ids = {MarketVerificationId(id) : id \in ShopNftIds}
    /\ certificates = EmptyMap
    /\ balance = InitialBalance
    /\ admin_cap = [id |-> 1,
                    owner |-> Deployer,
                    wormhole_state_id |-> NoId,
                    token_bridge_state_id |-> NoId,
                    emitter_cap |-> NoId,
                    total_supply |-> 0]
    /\ published = <<>>
    /\ deleted = {}
    /\ next_id = 7
    /\ mint_count = [r \in {MarketVerificationId(id) : id \in ShopNftIds} |-> 1]
    /\ event_count = [t \in EventTypes |->
                         CASE t = "MintNFTEvent" -> 3
                           [] t = "ListingCreated" -> 2
                           [] OTHER -> 0]
    /\ listing_log = [l \in {5, 6} |-> <<"ListingCreated">>]
    /\ id_limit = 7
    /\ active_listing_ids = <<5, 6>>
    /\ InitEvm
    /\ InitBackend
    /\ calls = <<>>
    /\ toast = <<>>
    /\ \E account \in Accounts, other \in Accounts, p \in Prices, q \in Prices :
          /\ other # account
          /\ q = p
          /\ owned_nfts = [id \in {4} |-> [nft |-> MarketNft(4), owner |-> account]]
          /\ listings = [l \in {5, 6} |->
                IF l = 5 THEN Listing(5, 2, MarketNft(2), p, other)
                ELSE Listing(6, 3, MarketNft(3), q, account)]
          /\ active_listings = [l \in {5, 6} |-> IF l = 5 THEN other ELSE account]
          /\ last_tx = Tx("list_item", account, [nft |-> 3, price_mist |-> q], OK,
                          <<ListingCreated(6, 3, account, q)>>)
          /\ \E route \in {"marketplace", "my-assets"} :
                page = [FirstRender(route, account) EXCEPT
                           !.listings = IF route = "marketplace" THEN fetchListings ELSE @,
                           !.nfts = IF route = "my-assets"
                                    THEN fetchOwnedNfts(account) ELSE @]
    /\ effects = [e \in Effects |-> IF Mounted(e) THEN StartPolling(e, EmptyBag) ELSE Idle]

NextClient ==
    \/ HandleBuy
    \/ BuyWithCoins
    \/ HandleCancelListing
    \/ HandleRetire
    \/ SignAndExecute
    \/ RunEffects
    \/ \E e \in Effects : PollTick(e)
    \/ \E e \in Effects : PollResponse(e)

SpecClient == InitClient /\ [][NextClient]_vars

\* the timers fire, the requests settle and React commits
FairSpecClient ==
    /\ InitClient /\ [][NextClient]_vars
    /\ WF_vars(RunEffects)
    /\ \A e \in Effects : WF_vars(PollTick(e)) /\ WF_vars(PollResponse(e))


\* --------------------------------------------------------- bridging runs
\* Bridging and retiring after the admin has minted MarketTokens tokens and
\* then bound the bridge with setup_bridge_admin: the state those
\* transactions leave, with room for every token to be bridged or retired.
InitBridge ==
    /\ processed_ids = {MarketVerificationId(id) : id \in MarketNftIds}
    /\ \E owner_of \in [MarketNftIds -> Accounts] :
          owned_nfts = [id \in MarketNftIds |->
                           [nft |-> MarketNft(id), owner |-> owner_of[id]]]
    /\ certificates = EmptyMap
    /\ listings = EmptyMap
    /\ active_listings = EmptyMap
    /\ active_listing_ids = <<>>
    /\ balance = InitialBalance
    /\ \E wh \in WormholeStateIds, tb \in TokenBridgeStateIds :
          /\ admin_cap = [id |-> 1,
                          owner |-> Deployer,
                          wormhole_state_id |-> wh,
                          token_bridge_state_id |-> tb,
                          emitter_cap |-> 2 + MarketTokens,
                          total_supply |-> 0]
          /\ last_tx = Tx("setup_bridge_admin", Deployer,
                          [wormhole_state_id |-> wh, token_bridge_state_id |-> tb],
                          OK, <<>>)
    /\ published = <<>>
    /\ deleted = {}
    /\ next_id = 3 + MarketTokens
    /\ mint_count = [r \in {MarketVerificationId(id) : id \in MarketNftIds} |-> 1]
    /\ event_count = [t \in EventTypes |-> IF t = "MintNFTEvent" THEN MarketTokens ELSE 0]
    /\ listing_log = EmptyMap
    /\ id_limit = 2 + 2 * MarketTokens
    /\ InitEvm
    /\ InitBackend
    /\ InitFrontend

NextBridge ==
    \/ RetireAndBridgeNft
    \/ RetireNft

SpecBridge == InitBridge /\ [][NextBridge]_vars

\* ------------------------------------------------------ administration runs
\* From deployment: every operation that takes the AdminCap (minting, binding
\* the bridge, bridging) and handing the AdminCap on.
NextAdmin ==
    \/ MintNft
    \/ SetupBridgeAdmin
    \/ RetireAndBridgeNft
    \/ TransferAdminCap

SpecAdmin == Init /\ [][NextAdmin]_vars

\* ---------------------------------------------------- certificate runs
\* After the admin has minted MarketTokens tokens: every order of retiring
\* them, handing the certificates on and freezing them.
NextProofs ==
    \/ RetireNft
    \/ FreezeMyCertificate
    \/ TransferCertificate

SpecProofs == InitMarket /\ [][NextProofs]_vars

\* -------------------------------------------------------- receiver runs
\* The admin holds every token and the bridge is bound: every order of
\* bridgings on Sui and of calls to the receiver on the EVM chain.
InitReceiver ==
    /\ InitBridge
    /\ \A id \in DOMAIN owned_nfts : owned_nfts[id].owner = Deployer

NextReceiver ==
    \/ RetireAndBridgeNft
    \/ ReceiveAndProcessVAA

SpecReceiver == InitReceiver /\ [][NextReceiver]_vars

\* -------------------------------------------------------- attester runs
\* From deployment, with the server as the only caller of mint_nft.
InitAttester ==
    /\ processed_ids = {}
    /\ owned_nfts = EmptyMap
    /\ certificates = EmptyMap
    /\ listings = EmptyMap
    /\ active_listings = EmptyMap
    /\ active_listing_ids = <<>>
    /\ balance = InitialBalance
    /\ admin_cap = [id |-> 1,
                    owner |-> Deployer,
                    wormhole_state_id |-> NoId,
                    token_bridge_state_id |-> NoId,
                    emitter_cap |-> NoId,
                    total_supply |-> 0]
    /\ published = <<>>
    /\ deleted = {}
    /\ next_id = 2
    /\ mint_count = [r \in AttesterReferences |-> 0]
    /\ event_count = [t \in EventTypes |-> 0]
    /\ listing_log = EmptyMap
    /\ id_limit = MaxIds
    /\ InitEvm
    /\ InitBackend
    /\ InitFrontend
    /\ last_tx = Tx("init", Deployer, <<>>, OK, <<>>)

NextAttester ==
    \/ RequestAttestation
    \/ Tick

SpecAttester == InitAttester /\ [][NextAttester]_vars

\* ----------------------------------------------------------- token runs
\* After deployment and the binding of the bridge: every order of minting
\* the tokens and of listing, retiring and bridging them.
InitTokens ==
    /\ processed_ids = {}
    /\ owned_nfts = EmptyMap
    /\ certificates = EmptyMap
    /\ listings = EmptyMap
    /\ active_listings = EmptyMap
    /\ active_listing_ids = <<>>
    /\ balance = InitialBalance
    /\ \E wh \in WormholeStateIds, tb \in TokenBridgeStateIds :
          /\ admin_cap = [id |-> 1,
                          owner |-> Deployer,
                          wormhole_state_id |-> wh,
                          token_bridge_state_id |-> tb,
                          emitter_cap |-> 2,
                          total_supply |-> 0]
          /\ last_tx = Tx("setup_bridge_admin", Deployer,
                          [wormhole_state_id |-> wh, token_bridge_state_id |-> tb],
                          OK, <<>>)
    /\ published = <<>>
    /\ deleted = {}
    /\ next_id = 3
    /\ mint_count = [r \in VerificationIds |-> 0]
    /\ event_count = [t \in EventTypes |-> 0]
    /\ listing_log = EmptyMap
    /\ id_limit = MaxIds + 2
    /\ InitEvm
    /\ InitBackend
    /\ InitFrontend

NextTokens ==
    \/ MintNft
    \/ ListItem
    \/ RetireNft
    \/ RetireAndBridgeNft

SpecTokens == InitTokens /\ [][NextTokens]_vars

\* ======================================================================
\* Properties
\* ======================================================================
\* the transaction ran the function body (the ledger did not refuse it)
Executed(tx, op) == tx.op = op /\ tx.status \notin {RejectedNotOwner, RejectedDeleted}
Succeeded(tx, op) == tx.op = op /\ tx.status = OK

\* the CarbonCreditNFT with identity id, wherever it is held
NftAt(id) ==
    IF id \in DOMAIN owned_nfts THEN owned_nfts[id].nft
    ELSE listings[CHOOSE l \in DOMAIN listings : listings[l].nft.id = id].nft

\* every identity that an object has or had
UsedIds ==
    LiveNftIds \cup (DOMAIN listings) \cup (DOMAIN certificates) \cup deleted
        \cup {admin_cap.id}
        \cup (IF admin_cap.emitter_cap # NoId THEN {admin_cap.emitter_cap} ELSE {})

\* the holdings a mint may touch, apart from the registry
Holdings == <<owned_nfts, certificates, listings, active_listings, active_listing_ids,
              balance>>

\* ---------------------------------------------------------------- C1
\* C1: for every verification reference r, over every order of mint
\* transactions, at most one mint with r ever succeeds, and at most one
\* token carrying r exists.
C1_AtMostOneMintPerRef ==
    \A r \in VerificationIds :
        /\ mint_count[r] <= 1
        /\ Cardinality({id \in LiveNftIds : NftAt(id).verification_id = r}) <= mint_count[r]

\* a second mint with a reference that was already minted has been attempted
C1_Witness ==
    /\ Executed(last_tx, "mint_nft")
    /\ last_tx.args.amount_kg_co2e > 0
    /\ mint_count[last_tx.args.verification_id] = 1
    /\ last_tx.status = Abort(EVerificationIdAlreadyProcessed)

\* ---------------------------------------------------------------- C2
\* C2 as stated: once r is processed, every later mint call with r fails with
\* DuplicateVerification, whatever its recipient, quantity (0 included) and
\* category, and leaves registry and holdings unchanged.
C2_Original ==
    [][(Executed(last_tx', "mint_nft") /\ last_tx'.args.verification_id \in processed_ids)
        => /\ last_tx'.status = Abort(EVerificationIdAlreadyProcessed)
           /\ UNCHANGED <<processed_ids, Holdings>>]_vars

\* C2 as amended: once r is processed, every later mint call with r fails and
\* leaves registry and holdings unchanged; it fails with DuplicateVerification
\* when its quantity is positive and with InvalidAmount when its quantity is 0.
C2_DuplicateMintFails ==
    [][(Executed(last_tx', "mint_nft") /\ last_tx'.args.verification_id \in processed_ids)
        => /\ last_tx'.status = IF last_tx'.args.amount_kg_co2e = 0
                                THEN Abort(EInvalidAmount)
                                ELSE Abort(EVerificationIdAlreadyProcessed)
           /\ UNCHANGED <<processed_ids, Holdings>>]_vars

\* a mint with quantity 0 and an already processed reference has been attempted
C2_Witness ==
    /\ Executed(last_tx, "mint_nft")
    /\ last_tx.args.amount_kg_co2e = 0
    /\ last_tx.args.verification_id \in processed_ids
    /\ last_tx.status = Abort(EInvalidAmount)

\* ---------------------------------------------------------------- C3
\* C3: the set of processed references only grows under every operation, and
\* a mint with a processed reference can never succeed again, also after the
\* token minted with it was retired or bridged.
C3_RegistryOnlyGrows ==
    [][/\ processed_ids \subseteq processed_ids'
       /\ \A r \in processed_ids : \A a \in Amounts :
              mint_status(processed_ids', a, r) # OK
       /\ (Succeeded(last_tx', "mint_nft")
              => last_tx'.args.verification_id \notin processed_ids)]_vars

\* a mint with the reference of a token that was retired or bridged has failed
C3_Witness ==
    /\ Executed(last_tx, "mint_nft")
    /\ last_tx.status = Abort(EVerificationIdAlreadyProcessed)
    /\ \A id \in LiveNftIds : NftAt(id).verification_id # last_tx.args.verification_id
    /\ event_count["RetireNFTEvent"] + event_count["NFTBridgingInitiated"] > 0
    /\ Cardinality(processed_ids) = 2

\* ---------------------------------------------------------------- C4
\* C4: a mint with quantity 0 fails with InvalidAmount and changes nothing:
\* no token is created and its reference is not marked processed, so a mint
\* with the same reference and a positive quantity still succeeds afterwards.
C4_ZeroMintFails ==
    [][(Executed(last_tx', "mint_nft") /\ last_tx'.args.amount_kg_co2e = 0)
        => /\ last_tx'.status = Abort(EInvalidAmount)
           /\ UNCHANGED <<processed_ids, Holdings, mint_count, next_id>>
           /\ (last_tx'.args.verification_id \notin processed_ids
                 => \A a \in Amounts \ {0} :
                        mint_status(processed_ids', a, last_tx'.args.verification_id) = OK)]_vars

\* a mint with quantity 0 and a fresh reference has failed
C4_Witness ==
    /\ Executed(last_tx, "mint_nft")
    /\ last_tx.args.amount_kg_co2e = 0
    /\ last_tx.status = Abort(EInvalidAmount)
    /\ last_tx.args.verification_id \notin processed_ids
    /\ processed_ids # {}

\* ---------------------------------------------------------------- C5
\* C5: a successful mint marks its reference processed, creates exactly one
\* new token with a fresh identity and the quantity, category and reference
\* given, owned by the recipient alone, emits one mint event with that
\* identity, recipient, quantity and reference, and changes nothing else.
C5_MintEffect ==
    [][Succeeded(last_tx', "mint_nft")
        => LET a == last_tx'.args
               created == (DOMAIN owned_nfts') \ (DOMAIN owned_nfts)
           IN  /\ processed_ids' = processed_ids \cup {a.verification_id}
               /\ Cardinality(created) = 1
               /\ \A id \in created :
                    /\ id \notin UsedIds
                    /\ owned_nfts'[id] =
                          [nft |-> [id |-> id,
                                    amount_kg_co2e |-> a.amount_kg_co2e,
                                    activity_type |-> a.activity_type,
                                    verification_id |-> a.verification_id],
                           owner |-> a.recipient]
                    /\ last_tx'.events =
                          <<[type |-> "MintNFTEvent", nft_id |-> id,
                             recipient |-> a.recipient,
                             amount_kg_co2e |-> a.amount_kg_co2e,
                             verification_id |-> a.verification_id]>>
               /\ \A id \in DOMAIN owned_nfts :
                    id \in DOMAIN owned_nfts' /\ owned_nfts'[id] = owned_nfts[id]
               /\ UNCHANGED <<certificates, listings, active_listings, active_listing_ids,
                              balance, admin_cap, published, deleted>>]_vars

\* a mint has succeeded while another token and a deleted object exist
C5_Witness ==
    /\ Succeeded(last_tx, "mint_nft")
    /\ last_tx.sender # last_tx.args.recipient
    /\ Cardinality(LiveNftIds) + Cardinality(deleted) >= 2

\* ---------------------------------------------------------------- C6
RECURSIVE SumOver(_, _)
SumOver(f, keys) ==
    IF keys = {} THEN 0
    ELSE LET k == CHOOSE x \in keys : TRUE IN f[k] + SumOver(f, keys \ {k})

\* each live token is in exactly one place, and every token ever minted is
\* live or was destroyed by a retirement or a bridging
OnePlacePerToken ==
    /\ (DOMAIN owned_nfts) \cap WrappedNftIds = {}
    /\ \A l1, l2 \in DOMAIN listings :
          listings[l1].nft.id = listings[l2].nft.id => l1 = l2
    /\ \A id \in DOMAIN owned_nfts :
          owned_nfts[id].nft.id = id /\ owned_nfts[id].owner \in Accounts
    /\ LiveNftIds \cap deleted = {}
    /\ SumOver(mint_count, VerificationIds) =
          Cardinality(LiveNftIds) + event_count["RetireNFTEvent"]
              + event_count["NFTBridgingInitiated"]

\* C6: every token minted and not yet retired or bridged is in exactly one
\* place, owned by one account or escrowed in one Listing; list, buy and
\* cancel neither destroy nor duplicate a token; only retire and
\* retire_and_bridge destroy one, and a destroyed identity never reappears.
C6_TokenInOnePlace ==
    /\ OnePlacePerToken
    /\ [][/\ OnePlacePerToken'
          /\ deleted \subseteq deleted'
          /\ (last_tx'.op \in {"list_item", "buy_item", "cancel_listing"}
                => LiveNftIds' = LiveNftIds)
          /\ (LiveNftIds \ LiveNftIds' # {}
                => /\ \/ Succeeded(last_tx', "retire_nft")
                      \/ Succeeded(last_tx', "retire_and_bridge_nft")
                   /\ LiveNftIds \ LiveNftIds' = {last_tx'.args.nft}
                   /\ last_tx'.args.nft \in deleted')]_vars

\* one of two live tokens has been listed and bought by another account
C6_Witness ==
    /\ Succeeded(last_tx, "buy_item")
    /\ Cardinality(LiveNftIds) = 2
    /\ last_tx.args.listing \in deleted
    /\ \E id \in DOMAIN owned_nfts : owned_nfts[id].owner # last_tx.sender

\* ---------------------------------------------------------------- C7
\* C7: every existing token has quantity > 0, and its identity, quantity,
\* category and reference never change while it exists: what buy hands to the
\* buyer and cancel hands back to the seller is the token that was listed.
C7_TokenImmutable ==
    [][/\ \A id \in LiveNftIds' :
             /\ NftAt(id)'.amount_kg_co2e > 0
             /\ NftAt(id)'.id = id
       /\ \A id \in LiveNftIds \cap LiveNftIds' : NftAt(id)' = NftAt(id)
       /\ (Succeeded(last_tx', "buy_item") \/ Succeeded(last_tx', "cancel_listing")
             => LET listing == listings[last_tx'.args.listing]
                IN  /\ listing.nft.id \in DOMAIN owned_nfts'
                    /\ owned_nfts'[listing.nft.id].nft = listing.nft)]_vars

\* a token listed by one account has been bought by another
C7_Witness ==
    /\ Succeeded(last_tx, "buy_item")
    /\ \E i \in 1..Len(last_tx.events) :
          /\ last_tx.events[i].seller # last_tx.events[i].buyer
          /\ last_tx.events[i].nft_id \in DOMAIN owned_nfts
          /\ owned_nfts[last_tx.events[i].nft_id].nft.amount_kg_co2e = 2

\* ---------------------------------------------------------------- C8
\* C8: a successful retire destroys the token and creates exactly one
\* RetirementProof, owned by the caller, whose original-token reference,
\* quantity and verification reference are the destroyed token's and whose
\* retirer is the caller; the number of proofs always equals the number of
\* successful local retirements.
C8_RetireOneToOne ==
    /\ Cardinality(DOMAIN certificates) = event_count["RetireNFTEvent"]
    /\ [][/\ Cardinality(DOMAIN certificates') = event_count'["RetireNFTEvent"]
          /\ (DOMAIN certificates # DOMAIN certificates' => Succeeded(last_tx', "retire_nft"))
          /\ (Succeeded(last_tx', "retire_nft")
                => LET nft_id == last_tx'.args.nft
                       nft == owned_nfts[nft_id].nft
                       created == (DOMAIN certificates') \ (DOMAIN certificates)
                   IN  /\ nft_id \notin LiveNftIds'
                       /\ nft_id \in deleted'
                       /\ Cardinality(created) = 1
                       /\ event_count'["RetireNFTEvent"] = event_count["RetireNFTEvent"] + 1
                       /\ \A c \in DOMAIN certificates :
                             c \in DOMAIN certificates' /\ certificates'[c] = certificates[c]
                       /\ \A c \in created :
                             /\ c \notin UsedIds
                             /\ certificates'[c].owner = last_tx'.sender
                             /\ certificates'[c].cert =
                                   [id |-> c, original_nft_id |-> nft_id,
                                    retirer_address |-> last_tx'.sender,
                                    retired_amount_kg_co2e |-> nft.amount_kg_co2e,
                                    original_verification_id |-> nft.verification_id])]_vars

\* a token has been retired by an account that did not receive it from mint
C8_Witness ==
    /\ Succeeded(last_tx, "retire_nft")
    /\ event_count["ItemSold"] = 1
    /\ \E c \in DOMAIN certificates : certificates[c].cert.retired_amount_kg_co2e = 2

\* ---------------------------------------------------------------- C9
\* C9: retire, like list and bridge, is executed on a token only for the
\* account that owns it at that moment; a call by any other account, the
\* previous owner after a sale and the seller of an escrowed token included,
\* is refused and changes nothing.
C9_OnlyOwnerRetires ==
    [][(last_tx'.op \in {"retire_nft", "list_item", "retire_and_bridge_nft"})
        => LET owns(nft_id) == /\ nft_id \in DOMAIN owned_nfts
                               /\ owned_nfts[nft_id].owner = last_tx'.sender
           IN  /\ (last_tx'.status = OK => owns(last_tx'.args.nft))
               /\ (last_tx'.status = RejectedNotOwner /\ last_tx'.args.type = "CarbonCreditNFT"
                     => ~owns(last_tx'.args.object))
               /\ (last_tx'.status # OK => UNCHANGED ledger)]_vars

\* the seller of a token sold to another account has tried to retire it
C9_Witness ==
    /\ last_tx.op = "retire_nft"
    /\ last_tx.status = RejectedNotOwner
    /\ last_tx.args.type = "CarbonCreditNFT"
    /\ last_tx.args.object \in DOMAIN owned_nfts
    /\ owned_nfts[last_tx.args.object].owner # last_tx.sender
    /\ event_count["ItemSold"] = 1
    /\ event_count["MintNFTEvent"] = 1

\* ---------------------------------------------------------------- C10
\* what every successful buy does apart from moving the payment
BuyMovesTokenAndUnlists(listing_id) ==
    LET listing == listings[listing_id]
    IN  /\ listing.nft.id \in DOMAIN owned_nfts'
        /\ owned_nfts'[listing.nft.id].owner = last_tx'.sender
        /\ listing_id \notin DOMAIN active_listings'
        /\ \A i \in 1..Len(active_listing_ids') : active_listing_ids'[i] # listing_id

\* C10 as stated: after a successful buy at price p by B from S the token is
\* owned by B, S's balance has grown by exactly p, B's has shrunk by exactly p,
\* and the Listing identity is in neither registry structure.
C10_Original ==
    [][Succeeded(last_tx', "buy_item")
        => LET listing == listings[last_tx'.args.listing]
               B == last_tx'.sender
               S == listing.seller
               price == listing.price_mist
           IN  /\ BuyMovesTokenAndUnlists(last_tx'.args.listing)
               /\ balance'[S] = balance[S] + price
               /\ balance'[B] = balance[B] - price]_vars

\* C10 as amended: after a successful buy at price p by B from S the token is
\* owned by B and the Listing identity is in neither registry structure; when
\* B is not S, S's balance has grown by exactly p and B's has shrunk by
\* exactly p; when B is S the balance of that account is unchanged; no other
\* balance changes, so total currency is conserved.
C10_BuyConserves ==
    [][Succeeded(last_tx', "buy_item")
        => LET listing == listings[last_tx'.args.listing]
               B == last_tx'.sender
               S == listing.seller
               price == listing.price_mist
           IN  /\ BuyMovesTokenAndUnlists(last_tx'.args.listing)
               /\ last_tx'.args.payment = price
               /\ (B # S => /\ balance'[S] = balance[S] + price
                            /\ balance'[B] = balance[B] - price)
               /\ (B = S => balance'[S] = balance[S])
               /\ \A a \in Accounts \ {B, S} : balance'[a] = balance[a]
               /\ SumOver(balance', Accounts) = SumOver(balance, Accounts)]_vars

\* a listing with a positive price has been bought by another account
C10_Witness ==
    /\ Succeeded(last_tx, "buy_item")
    /\ last_tx.args.payment = 1
    /\ \E i \in 1..Len(last_tx.events) : last_tx.events[i].seller # last_tx.sender

\* ---------------------------------------------------------------- C11
\* after the step the Listing is active and indexed and still wraps its token
StaysActiveAndEscrowed(listing) ==
    /\ listing.id \in DOMAIN listings' /\ listings'[listing.id] = listing
    /\ listing.id \in DOMAIN active_listings'
    /\ \E i \in 1..Len(active_listing_ids') : active_listing_ids'[i] = listing.id
    /\ listing.nft.id \notin DOMAIN owned_nfts'

\* C11: a buy whose payment differs from the listing price, lower or higher,
\* fails with IncorrectPaymentAmount and changes nothing: the Listing stays
\* active and indexed, the token stays escrowed, the payment stays with the
\* caller, and a buy with the exact price is still accepted afterwards; a buy
\* of an active Listing with the exact price succeeds.
C11_WrongPaymentFails ==
    [][Executed(last_tx', "buy_item")
        => LET listing == listings[last_tx'.args.listing]
               payment == last_tx'.args.payment
           IN  /\ (payment # listing.price_mist
                     => /\ last_tx'.status = Abort(EIncorrectPaymentAmount)
                        /\ UNCHANGED ledger
                        /\ StaysActiveAndEscrowed(listing)
                        /\ balance'[last_tx'.sender] = balance[last_tx'.sender]
                        /\ buy_status(active_listings', listings'[listing.id],
                                      listing.price_mist) = OK)
               /\ (payment = listing.price_mist => last_tx'.status = OK)]_vars

\* a buy paying more than the price has been refused
C11_Witness ==
    /\ Executed(last_tx, "buy_item")
    /\ last_tx.status = Abort(EIncorrectPaymentAmount)
    /\ last_tx.args.listing \in DOMAIN listings
    /\ listings[last_tx.args.listing].price_mist = 1
    /\ last_tx.args.payment > 1

\* ---------------------------------------------------------------- C12
\* C12: after a successful cancel the wrapped token is owned by the Listing's
\* original seller, no account's balance has changed, and the Listing
\* identity is absent from the id-to-seller map and from the id index.
C12_CancelConserves ==
    [][Succeeded(last_tx', "cancel_listing")
        => LET listing == listings[last_tx'.args.listing]
           IN  /\ listing.nft.id \in DOMAIN owned_nfts'
               /\ owned_nfts'[listing.nft.id] = [nft |-> listing.nft, owner |-> listing.seller]
               /\ active_listings[listing.id] = listing.seller
               /\ balance' = balance
               /\ listing.id \notin DOMAIN active_listings'
               /\ \A i \in 1..Len(active_listing_ids') : active_listing_ids'[i] # listing.id
               /\ listing.id \notin DOMAIN listings']_vars

\* a listing made after an earlier sale has been cancelled
C12_Witness ==
    /\ Succeeded(last_tx, "cancel_listing")
    /\ event_count["ItemSold"] = 1
    /\ balance # InitialBalance

\* ---------------------------------------------------------------- C13
\* C13: a cancel called by an account other than the Listing's seller fails
\* with NotSeller and changes nothing: the Listing stays active and indexed
\* and the token stays escrowed; a Listing is only ever dissolved by a
\* successful buy or by a cancel of its seller, which returns the token to
\* the seller.
C13_OnlySellerCancels ==
    [][/\ (Executed(last_tx', "cancel_listing")
             => LET listing == listings[last_tx'.args.listing]
                IN  /\ (last_tx'.sender # listing.seller
                          => /\ last_tx'.status = Abort(ENotSeller)
                             /\ UNCHANGED ledger
                             /\ StaysActiveAndEscrowed(listing))
                    /\ (last_tx'.status = OK => last_tx'.sender = listing.seller))
       /\ \A l \in (DOMAIN listings) \ (DOMAIN listings') :
             \/ Succeeded(last_tx', "buy_item") /\ last_tx'.args.listing = l
             \/ /\ Succeeded(last_tx', "cancel_listing") /\ last_tx'.args.listing = l
                /\ last_tx'.sender = listings[l].seller
                /\ owned_nfts'[listings[l].nft.id].owner = listings[l].seller]_vars

\* the previous owner of a token has tried to cancel the listing its buyer made
C13_Witness ==
    /\ Executed(last_tx, "cancel_listing")
    /\ last_tx.status = Abort(ENotSeller)
    /\ event_count["ItemSold"] = 1
    /\ last_tx.args.listing \in DOMAIN active_listings
    /\ active_listings[last_tx.args.listing] # last_tx.sender

\* ---------------------------------------------------------------- C14
\* the Listings created by list and not yet successfully bought or cancelled
OpenListingIds == {l \in DOMAIN listing_log : listing_log[l] = <<"ListingCreated">>}

\* C14: in every reachable state, after any sequence of successful and failed
\* list, buy and cancel operations, get_active_listing_ids returns each
\* identity of a Listing created and not yet bought or cancelled exactly once
\* and no other identity (no stale entry, no duplicate); the id-to-seller
\* map has exactly the same identities.
C14_IndexIntegrity ==
    LET ids == get_active_listing_ids
    IN  /\ {ids[i] : i \in 1..Len(ids)} = OpenListingIds
        /\ \A i, j \in 1..Len(ids) : ids[i] = ids[j] => i = j
        /\ DOMAIN active_listings = OpenListingIds

\* a removal from a three-entry index has changed the order of the two that remain
C14_Witness ==
    /\ last_tx.op \in {"buy_item", "cancel_listing"}
    /\ last_tx.status = OK
    /\ Len(get_active_listing_ids) = 2
    /\ get_active_listing_ids[1] > get_active_listing_ids[2]

\* ---------------------------------------------------------------- C15
\* a Listing exists exactly while its token is escrowed, and wraps one token
\* whose identity it records
ListingsMatchEscrow ==
    /\ DOMAIN listings = OpenListingIds
    /\ \A l \in DOMAIN listings :
          /\ listings[l].id = l
          /\ listings[l].nft_id = listings[l].nft.id
          /\ listings[l].nft.id \notin DOMAIN owned_nfts
          /\ active_listings[l] = listings[l].seller
    /\ \A l1, l2 \in DOMAIN listings :
          listings[l1].nft.id = listings[l2].nft.id => l1 = l2
    /\ \A id \in 1..id_limit :
          (id \in LiveNftIds /\ id \notin DOMAIN owned_nfts)
              <=> (\E l \in DOMAIN listings : listings[l].nft_id = id)

\* C15: a Listing exists exactly while its wrapped token is escrowed, wraps
\* exactly one token whose identity equals its recorded token reference, and
\* keeps its price and seller from list until the buy or cancel that
\* destroys it; the seller is the account that called list.
C15_ListingFixed ==
    /\ ListingsMatchEscrow
    /\ [][/\ ListingsMatchEscrow'
          /\ \A l \in (DOMAIN listings) \cap (DOMAIN listings') : listings'[l] = listings[l]
          /\ \A l \in (DOMAIN listings) \ (DOMAIN listings') :
                /\ last_tx'.op \in {"buy_item", "cancel_listing"}
                /\ last_tx'.status = OK
                /\ last_tx'.args.listing = l
          /\ \A l \in (DOMAIN listings') \ (DOMAIN listings) :
                /\ Succeeded(last_tx', "list_item")
                /\ listings'[l].seller = last_tx'.sender
                /\ listings'[l].price_mist = last_tx'.args.price_mist
                /\ listings'[l].nft = owned_nfts[last_tx'.args.nft].nft
          /\ (Succeeded(last_tx', "list_item")
                => Cardinality((DOMAIN listings') \ (DOMAIN listings)) = 1)]_vars

\* the buyer of a token has listed it again while another Listing is active
C15_Witness ==
    /\ Succeeded(last_tx, "list_item")
    /\ Cardinality(DOMAIN listings) = 2
    /\ event_count["ItemSold"] = 1
    /\ \E l1, l2 \in DOMAIN listings : listings[l1].seller # listings[l2].seller

\* ---------------------------------------------------------------- C16
\* C16: a Listing moves only Active -> Sold or Active -> Cancelled, both
\* terminal: a Listing that was bought or cancelled never becomes Active
\* again, no later buy or cancel on it succeeds, and no Listing is both Sold
\* and Cancelled.
C16_ListingLifecycle ==
    /\ listing_log = EmptyMap
    /\ [][/\ \A l \in DOMAIN listing_log' :
                /\ listing_log'[l] \in {<<"ListingCreated">>,
                                        <<"ListingCreated", "ItemSold">>,
                                        <<"ListingCreated", "ListingCancelled">>}
                /\ (l \in DOMAIN listings' <=> listing_log'[l] = <<"ListingCreated">>)
          /\ \A l \in DOMAIN listing_log :
                /\ l \in DOMAIN listing_log'
                /\ (Len(listing_log[l]) > 1
                      => /\ listing_log'[l] = listing_log[l]
                         /\ l \notin DOMAIN listings'
                         /\ l \notin DOMAIN active_listings')
                /\ (listing_log'[l] # listing_log[l]
                      => /\ listing_log[l] = <<"ListingCreated">>
                         /\ last_tx'.status = OK
                         /\ last_tx'.args.listing = l
                         /\ \/ last_tx'.op = "buy_item"
                               /\ listing_log'[l] = <<"ListingCreated", "ItemSold">>
                            \/ last_tx'.op = "cancel_listing"
                               /\ listing_log'[l] = <<"ListingCreated", "ListingCancelled">>)]_vars

\* a buy of a Listing that its seller had cancelled has been refused
C16_Witness ==
    /\ last_tx.op = "buy_item"
    /\ last_tx.status = RejectedDeleted
    /\ listing_log[last_tx.args.object] = <<"ListingCreated", "ListingCancelled">>
    /\ \E l \in DOMAIN listing_log : listing_log[l] = <<"ListingCreated", "ItemSold">>

\* ---------------------------------------------------------------- C17
\* the buys and cancels of Listing l that have committed
CommitsOn(log, l) ==
    Cardinality({i \in 1..Len(log[l]) : log[l][i] \in {"ItemSold", "ListingCancelled"}})

\* C17: of the transactions that target the same active Listing (two buyers
\* paying the exact price, or a buyer and the cancelling seller), executed in
\* the order the ledger gives them, at most one commits: the token ends up
\* with exactly one account, at most one payment reaches the seller, and
\* every transaction that comes after the one that committed is refused and
\* leaves its submitter's balance and every holding untouched.
C17_OneWinnerPerListing ==
    [][(last_tx'.op \in {"buy_item", "cancel_listing"})
        => /\ \A l \in DOMAIN listing_log' : CommitsOn(listing_log', l) <= 1
           /\ (last_tx'.status = OK
                 => LET listing == listings[last_tx'.args.listing]
                        winner == IF last_tx'.op = "buy_item" THEN last_tx'.sender
                                  ELSE listing.seller
                        paid == IF last_tx'.op = "buy_item" THEN listing.price_mist ELSE 0
                    IN  /\ CommitsOn(listing_log, listing.id) = 0
                        /\ CommitsOn(listing_log', listing.id) = 1
                        /\ listing.nft.id \in DOMAIN owned_nfts'
                        /\ owned_nfts'[listing.nft.id].owner = winner
                        /\ listing.nft.id \notin WrappedNftIds'
                        /\ SumOver(balance', Accounts) = SumOver(balance, Accounts)
                        /\ (last_tx'.sender # listing.seller
                              => balance'[listing.seller] = balance[listing.seller] + paid))
           /\ (last_tx'.status = RejectedDeleted
                 => /\ CommitsOn(listing_log, last_tx'.args.object) = 1
                    /\ balance' = balance
                    /\ UNCHANGED ledger)
           /\ (last_tx'.status \notin {OK, RejectedDeleted}
                 => last_tx'.args.listing \in DOMAIN listings)]_vars

\* a second buyer holding the price has been refused after the Listing was sold
C17_Witness ==
    /\ last_tx.op = "buy_item"
    /\ last_tx.status = RejectedDeleted
    /\ listing_log[last_tx.args.object] = <<"ListingCreated", "ItemSold">>
    /\ balance[last_tx.sender] >= 1
    /\ \E id \in DOMAIN owned_nfts : owned_nfts[id].owner # last_tx.sender

\* ---------------------------------------------------------------- C18
\* the tokens consumed by bridging: destroyed, and not named by a certificate
BridgedNftIds ==
    {id \in MarketNftIds :
        /\ id \in deleted
        /\ \A c \in DOMAIN certificates : certificates[c].cert.original_nft_id # id}

\* the fungible supply equals the quantities of the tokens consumed by bridging
SupplyMatchesBridged ==
    /\ admin_cap.total_supply =
          SumOver([id \in MarketNftIds |-> MarketNft(id).amount_kg_co2e], BridgedNftIds)
    /\ Len(published) = Cardinality(BridgedNftIds)
    /\ Len(published) = event_count["NFTBridgingInitiated"]
    /\ Cardinality(DOMAIN certificates) = event_count["RetireNFTEvent"]

\* C18: every successful retire_and_bridge of a token with quantity q mints
\* exactly q units of the fungible bridged-credit, hands exactly q units to
\* the token-transport transfer and destroys the token; over any run the
\* fungible supply ever minted equals the sum of the quantities of the tokens
\* consumed by bridging, and bridging creates no RetirementProof.
C18_BridgeConservesQuantity ==
    /\ SupplyMatchesBridged
    /\ [][/\ SupplyMatchesBridged'
          /\ (admin_cap'.total_supply # admin_cap.total_supply
                => Succeeded(last_tx', "retire_and_bridge_nft"))
          /\ (Succeeded(last_tx', "retire_and_bridge_nft")
                => LET nft == owned_nfts[last_tx'.args.nft].nft
                       q == nft.amount_kg_co2e
                   IN  /\ admin_cap'.total_supply = admin_cap.total_supply + q
                       /\ Len(published') = Len(published) + 1
                       /\ \A i \in 1..Len(published) : published'[i] = published[i]
                       /\ published'[Len(published')].amount = q
                       /\ published'[Len(published')].payload.amount_kg_co2e = q
                       /\ published'[Len(published')].payload.sui_nft_id = nft.id
                       /\ nft.id \notin LiveNftIds'
                       /\ nft.id \in deleted'
                       /\ certificates' = certificates)]_vars

\* two tokens of different quantities have been bridged and a third retired
C18_Witness ==
    /\ Succeeded(last_tx, "retire_and_bridge_nft")
    /\ Len(published) = 2
    /\ published[1].amount # published[2].amount
    /\ Cardinality(DOMAIN certificates) = 1

\* ---------------------------------------------------------------- C19
\* C19: retire_and_bridge called with an admin capability whose bridge
\* fields are not bound fails with BridgeNotInitialized and changes nothing:
\* the token still exists and is owned by the caller, no fungible unit is
\* minted, no message is published and the fee stays with the caller.
C19_UnboundBridgeFails ==
    [][(/\ Executed(last_tx', "retire_and_bridge_nft")
        /\ \/ admin_cap.emitter_cap = NoId
           \/ admin_cap.wormhole_state_id = NoId
           \/ admin_cap.token_bridge_state_id = NoId)
        => /\ last_tx'.status = Abort(EAdminCapNotInitialized)
           /\ UNCHANGED ledger
           /\ last_tx'.args.nft \in DOMAIN owned_nfts'
           /\ owned_nfts'[last_tx'.args.nft] = owned_nfts[last_tx'.args.nft]
           /\ owned_nfts'[last_tx'.args.nft].owner = last_tx'.sender
           /\ admin_cap'.total_supply = admin_cap.total_supply
           /\ published' = published
           /\ balance'[last_tx'.sender] = balance[last_tx'.sender]]_vars

\* a bridging that offered a fee to working coordinators has failed on the
\* unbound capability
C19_Witness ==
    /\ Executed(last_tx, "retire_and_bridge_nft")
    /\ last_tx.status = Abort(EAdminCapNotInitialized)
    /\ last_tx.args.fee = 1
    /\ last_tx.args.env.asset = "native"
    /\ last_tx.args.nft \in DOMAIN owned_nfts

\* ---------------------------------------------------------------- C20
\* C20 as stated: retire_and_bridge called when the token bridge does not
\* know the CarbonCreditToken as a native asset fails with AssetNotRegistered
\* and changes nothing: the token still exists with its owner and the
\* fungible supply is unchanged.
C20_AssetNotRegistered ==
    [][(/\ Executed(last_tx', "retire_and_bridge_nft")
        /\ admin_cap.emitter_cap # NoId
        /\ last_tx'.args.env.asset # "native")
        => /\ last_tx'.status = Abort(ECarbonTokenNotRegistered)
           /\ UNCHANGED ledger]_vars

\* C20, what the code does: such a call fails and changes nothing; it fails
\* with AssetNotRegistered only when the token bridge knows the type as a
\* wrapped asset, and inside the token bridge when it does not know the type.
C20_NothingChanges ==
    [][(/\ Executed(last_tx', "retire_and_bridge_nft")
        /\ admin_cap.emitter_cap # NoId
        /\ last_tx'.args.env.asset # "native")
        => /\ last_tx'.status = IF last_tx'.args.env.asset = "wrapped"
                                THEN Abort(ECarbonTokenNotRegistered)
                                ELSE ExternalAbort
           /\ UNCHANGED ledger
           /\ owned_nfts'[last_tx'.args.nft] = owned_nfts[last_tx'.args.nft]
           /\ admin_cap'.total_supply = admin_cap.total_supply]_vars

\* a bridging has failed on a token bridge that does not know the type at all
C20_Witness ==
    /\ Executed(last_tx, "retire_and_bridge_nft")
    /\ admin_cap.emitter_cap # NoId
    /\ last_tx.args.env.asset = "unregistered"
    /\ last_tx.status = ExternalAbort
    /\ last_tx.args.nft \in DOMAIN owned_nfts

\* ---------------------------------------------------------------- C21
\* C21: retire_and_bridge is all-or-nothing: a token is consumed by bridging
\* only in a transaction that also mints the fungible amount, publishes the
\* message and emits the event; when a step after the token's destruction
\* fails (asset lookup, ticket preparation, dust disposal, publishing with
\* the fee supplied) none of the four is visible.
C21_BridgeAllOrNothing ==
    [][LET bridged == admin_cap'.total_supply # admin_cap.total_supply
           sent == published' # published
           told == event_count'["NFTBridgingInitiated"] # event_count["NFTBridgingInitiated"]
           consumed == /\ LiveNftIds' # LiveNftIds
                       /\ DOMAIN certificates' = DOMAIN certificates
       IN  /\ (bridged \/ sent \/ told \/ consumed)
                => /\ Succeeded(last_tx', "retire_and_bridge_nft")
                   /\ bridged /\ sent /\ told /\ consumed
                   /\ last_tx'.args.nft \notin LiveNftIds'
                   /\ Len(published') = Len(published) + 1
                   /\ Len(last_tx'.events) = 1
                   /\ last_tx'.events[1].type = "NFTBridgingInitiated"
           /\ Succeeded(last_tx', "retire_and_bridge_nft")
                => bridged /\ sent /\ told /\ consumed
           /\ (last_tx'.op = "retire_and_bridge_nft" /\ last_tx'.status # OK)
                => /\ UNCHANGED ledger
                   /\ last_tx'.events = <<>>]_vars

\* a bridging has failed at publishing because the fee did not match, after
\* another token had been bridged
C21_Witness ==
    /\ Executed(last_tx, "retire_and_bridge_nft")
    /\ last_tx.status = ExternalAbort
    /\ last_tx.args.env.asset = "native"
    /\ last_tx.args.fee # last_tx.args.env.message_fee
    /\ last_tx.args.nft \in DOMAIN owned_nfts
    /\ Len(published) = 1

\* ---------------------------------------------------------------- C22
BridgeFields(cap) == <<cap.wormhole_state_id, cap.token_bridge_state_id, cap.emitter_cap>>
AllUnset(cap) == \A i \in 1..3 : BridgeFields(cap)[i] = NoId
AllSet(cap) == \A i \in 1..3 : BridgeFields(cap)[i] # NoId

\* C22: the admin capability starts with its three bridge fields unset; setup
\* succeeds only while all three are unset and sets all three together, so
\* they are always all unset or all set; every later setup call fails and
\* leaves them unchanged, and no operation unsets or changes them.
C22_BridgeBoundOnce ==
    /\ AllUnset(admin_cap)
    /\ [][/\ AllUnset(admin_cap') \/ AllSet(admin_cap')
          /\ (BridgeFields(admin_cap') # BridgeFields(admin_cap)
                => /\ Succeeded(last_tx', "setup_bridge_admin")
                   /\ AllUnset(admin_cap)
                   /\ AllSet(admin_cap')
                   /\ admin_cap'.wormhole_state_id = last_tx'.args.wormhole_state_id
                   /\ admin_cap'.token_bridge_state_id = last_tx'.args.token_bridge_state_id
                   /\ admin_cap'.emitter_cap \notin UsedIds)
          /\ (Succeeded(last_tx', "setup_bridge_admin")
                => AllUnset(admin_cap) /\ AllSet(admin_cap'))
          /\ (Executed(last_tx', "setup_bridge_admin") /\ ~AllUnset(admin_cap)
                => /\ last_tx'.status = Abort(ESetupAlreadyDone)
                   /\ UNCHANGED ledger)]_vars

\* an account that received the bound AdminCap has called setup again
C22_Witness ==
    /\ Executed(last_tx, "setup_bridge_admin")
    /\ last_tx.status = Abort(ESetupAlreadyDone)
    /\ last_tx.sender # Deployer
    /\ AllSet(admin_cap)

\* ---------------------------------------------------------------- C23
\* C23: minting is gated by possession of the admin capability and by
\* nothing else: each successful mint was executed by the account holding
\* the capability at that moment, whoever that is; a mint by the holder ends
\* as its two assertions decide; an account that does not hold it is
\* refused, creates no token and marks no reference processed.
C23_MintNeedsAdminCap ==
    [][/\ (last_tx'.op = "mint_nft")
            => /\ (last_tx'.sender # admin_cap.owner
                     => last_tx'.status = RejectedNotOwner /\ UNCHANGED ledger)
               /\ (last_tx'.sender = admin_cap.owner
                     => last_tx'.status = mint_status(processed_ids,
                                              last_tx'.args.amount_kg_co2e,
                                              last_tx'.args.verification_id))
       /\ (processed_ids' # processed_ids \/ LiveNftIds' \ LiveNftIds # {})
            => /\ Succeeded(last_tx', "mint_nft")
               /\ last_tx'.sender = admin_cap.owner]_vars

\* the account that received the AdminCap has minted, to the deployer
C23_Witness ==
    /\ Succeeded(last_tx, "mint_nft")
    /\ last_tx.sender # Deployer
    /\ last_tx.args.recipient = Deployer
    /\ admin_cap.owner = last_tx.sender

\* ---------------------------------------------------------------- C24
\* C24 as stated: once the admin capability is bound, any account that owns a
\* token can bridge it, whether or not it holds the admin capability: a
\* retire_and_bridge by the token's owner is never refused for the
\* capability, and with a native asset and the exact fee it succeeds.
C24_AnyOwnerCanBridge ==
    [][(last_tx'.op = "retire_and_bridge_nft" /\ AllSet(admin_cap))
        => /\ ~(/\ last_tx'.status = RejectedNotOwner
                /\ last_tx'.args.type = "AdminCap")
           /\ (/\ Executed(last_tx', "retire_and_bridge_nft")
               /\ last_tx'.args.env.asset = "native"
               /\ last_tx'.args.fee = last_tx'.args.env.message_fee
                 => last_tx'.status = OK)]_vars

\* C24, what the code does: a retire_and_bridge runs only for an account
\* that owns both the token and the AdminCap object; the owner of a token who
\* does not hold the AdminCap is refused and nothing changes.
C24_OnlyHolderBridges ==
    [][(last_tx'.op = "retire_and_bridge_nft")
        => /\ (last_tx'.status # RejectedNotOwner
                 => /\ last_tx'.sender = admin_cap.owner
                    /\ OwnsNft(last_tx'.sender, last_tx'.args.nft))
           /\ (last_tx'.status = RejectedNotOwner
                 => /\ UNCHANGED ledger
                    /\ (last_tx'.args.type = "AdminCap"
                          => /\ last_tx'.sender # admin_cap.owner
                             /\ \E id \in DOMAIN owned_nfts :
                                   owned_nfts[id].owner = last_tx'.sender))]_vars

\* the owner of a token, who is not the administrative account, has been
\* refused a bridging on a bound capability
C24_Witness ==
    /\ last_tx.op = "retire_and_bridge_nft"
    /\ last_tx.status = RejectedNotOwner
    /\ last_tx.args.type = "AdminCap"
    /\ AllSet(admin_cap)
    /\ last_tx.sender # admin_cap.owner
    /\ \E id \in DOMAIN owned_nfts : owned_nfts[id].owner = last_tx.sender

\* ---------------------------------------------------------------- C25
\* the message a successful retire_and_bridge_nft has just published
LastPublished == published[Len(published)]

\* the event field that answers to a payload field
EventFieldOf(f) == IF f = "target_evm_chain_id" THEN "target_chain_id" ELSE f

\* C25 as stated: every successful retire_and_bridge emits exactly one
\* bridging-initiated event, and the event carries every field of the payload
\* built in the same call (identity, quantity, category, verification
\* reference, caller, recipient bytes, chain id), each with the same value.
C25_EventHasPayloadFields ==
    [][Succeeded(last_tx', "retire_and_bridge_nft")
        => LET ev == last_tx'.events[1]
               payload == LastPublished'.payload
           IN  /\ Len(last_tx'.events) = 1
               /\ ev.type = "NFTBridgingInitiated"
               /\ \A f \in DOMAIN payload :
                     /\ EventFieldOf(f) \in DOMAIN ev
                     /\ ev[EventFieldOf(f)] = payload[f]]_vars

\* C25, what the code does: every successful retire_and_bridge emits exactly
\* one bridging-initiated event; it carries the token identity, the caller,
\* the quantity, the target chain id and the recipient bytes, each equal to
\* the payload's, and it carries neither the category nor the verification
\* reference.
C25_EventHasFiveFields ==
    [][Succeeded(last_tx', "retire_and_bridge_nft")
        => LET ev == last_tx'.events[1]
               payload == LastPublished'.payload
           IN  /\ Len(last_tx'.events) = 1
               /\ ev.type = "NFTBridgingInitiated"
               /\ DOMAIN ev = {"type", "sui_nft_id", "sui_owner_address",
                               "amount_kg_co2e", "target_chain_id",
                               "evm_recipient_address"}
               /\ ev.sui_nft_id = payload.sui_nft_id
               /\ ev.sui_owner_address = payload.sui_owner_address
               /\ ev.amount_kg_co2e = payload.amount_kg_co2e
               /\ ev.target_chain_id = payload.target_evm_chain_id
               /\ ev.evm_recipient_address = payload.evm_recipient_address
               /\ event_count'["NFTBridgingInitiated"]
                      = event_count["NFTBridgingInitiated"] + 1]_vars

\* a bridging has succeeded and has emitted its event for a token whose
\* category differs from its quantity
C25_Witness ==
    /\ Succeeded(last_tx, "retire_and_bridge_nft")
    /\ Len(last_tx.events) = 1
    /\ last_tx.events[1].type = "NFTBridgingInitiated"
    /\ LastPublished.payload.activity_type # last_tx.events[1].amount_kg_co2e

\* ---------------------------------------------------------------- C26
\* C26: the payload published by a successful retire_and_bridge holds the
\* consumed token's identity, quantity, category and verification reference,
\* the caller as source owner, and the recipient bytes and chain id given as
\* arguments; the transfer handed to the token bridge carries the same
\* recipient bytes and chain id.
C26_PayloadMatchesToken ==
    [][Succeeded(last_tx', "retire_and_bridge_nft")
        => LET nft == owned_nfts[last_tx'.args.nft].nft
               message == LastPublished'
               payload == LastPublished'.payload
           IN  /\ Len(published') = Len(published) + 1
               /\ last_tx'.args.nft \notin DOMAIN owned_nfts'
               /\ payload.sui_nft_id = nft.id
               /\ payload.amount_kg_co2e = nft.amount_kg_co2e
               /\ payload.activity_type = nft.activity_type
               /\ payload.original_verification_id = nft.verification_id
               /\ payload.sui_owner_address = last_tx'.sender
               /\ payload.evm_recipient_address = last_tx'.args.evm_recipient_address
               /\ payload.target_evm_chain_id = last_tx'.args.target_evm_chain_id
               /\ message.recipient = last_tx'.args.evm_recipient_address
               /\ message.recipient_chain = last_tx'.args.target_evm_chain_id]_vars

\* a bridging has succeeded and its message, with the payload, is published
C26_Witness ==
    /\ Succeeded(last_tx, "retire_and_bridge_nft")
    /\ Len(published) > 0
    /\ LastPublished.payload.sui_nft_id = last_tx.args.nft
    /\ LastPublished.payload.sui_owner_address = last_tx.sender
    /\ LastPublished.recipient = last_tx.args.evm_recipient_address

\* ---------------------------------------------------------------- C29
\* the transaction tx names certificate c as the object it acts on
ActsOnCertificate(tx, c) ==
    \/ /\ tx.op = "freeze_my_certificate"
       /\ tx.status = OK
       /\ tx.args.certificate = c
    \/ /\ tx.op = "public_transfer"
       /\ tx.status = OK
       /\ tx.args.type = "RetirementCertificate"
       /\ tx.args.object = c

\* C29: freeze_my_certificate runs only for the account that holds the
\* certificate at that moment, and leaves it frozen; a certificate that is
\* frozen stays as it is for ever: its fields, its holder and its frozen mark
\* never change, and no later freeze or transfer of it is executed.
C29_FreezeOneWay ==
    [][/\ Succeeded(last_tx', "freeze_my_certificate")
            => LET c == last_tx'.args.certificate
               IN  /\ c \in DOMAIN certificates
                   /\ certificates[c].owner = last_tx'.sender
                   /\ ~certificates[c].frozen
                   /\ certificates'[c] = [certificates[c] EXCEPT !.frozen = TRUE]
       /\ (last_tx'.op = "freeze_my_certificate" /\ last_tx'.status # OK)
            => /\ last_tx'.status = RejectedNotOwner
               /\ UNCHANGED ledger
       /\ \A c \in DOMAIN certificates :
             certificates[c].frozen
               => /\ c \in DOMAIN certificates'
                  /\ certificates'[c] = certificates[c]
                  /\ ~ActsOnCertificate(last_tx', c)]_vars

\* the holder of a frozen certificate has tried to freeze it again or to
\* hand it on, and was refused
C29_Witness ==
    /\ last_tx.op \in {"freeze_my_certificate", "public_transfer"}
    /\ last_tx.status = RejectedNotOwner
    /\ last_tx.args.type = "RetirementCertificate"
    /\ last_tx.args.object \in DOMAIN certificates
    /\ certificates[last_tx.args.object].frozen
    /\ certificates[last_tx.args.object].owner = last_tx.sender

\* ---------------------------------------------------------------- C27
\* recipient bytes as an EVM address: 20 bytes, zeros in front
AsEvmAddress(bytes) == Zeros(20 - Len(bytes)) \o bytes

\* the receiver's decoding of data yields the fields of payload
DecodesTo(data, payload) ==
    LET decoded == abi_decode(data)
    IN  /\ decoded.status = "ok"
        /\ decoded.payload.sui_nft_id = IdBytes(payload.sui_nft_id)
        /\ decoded.payload.amount_kg_co2e = payload.amount_kg_co2e
        /\ decoded.payload.activity_type = payload.activity_type
        /\ decoded.payload.original_verification_id = payload.original_verification_id
        /\ decoded.payload.sui_owner_address = SuiAddressBytes(payload.sui_owner_address)
        /\ decoded.payload.evm_recipient_address
              = AsEvmAddress(payload.evm_recipient_address)
        /\ decoded.payload.target_evm_chain_id = payload.target_evm_chain_id

\* C27 as stated: for every payload retire_and_bridge serializes, the
\* receiver's decoding of those bytes yields the same token id, quantity,
\* category, verification reference, source owner, recipient and chain id.
C27_DecodeAfterEncode ==
    \A i \in 1..Len(published) :
        DecodesTo(bcs_to_bytes(published[i].payload), published[i].payload)

\* C27, what the code does: abi.decode reverts on the bytes of every payload
\* retire_and_bridge serializes, so no call that relays a published message
\* mints; it decodes what abi.encode lays out.
C27_DecodeRevertsOnBcs ==
    /\ \A i \in 1..Len(published) :
          abi_decode(bcs_to_bytes(published[i].payload)).status = "reverted"
    /\ \A payload \in AbiPayloads :
          abi_decode(abi_encode(payload)) = [status |-> "ok", payload |-> payload]
    /\ (evm_call.last.op = "receiveAndProcessVAA" /\ evm_call.last.vm \in PublishedVAAs)
          => evm_call.last.status = "reverted"

\* a published message was relayed to the receiver, passed the checks on the
\* envelope, and the call reverted in abi.decode
C27_Witness ==
    /\ evm_call.last.op = "receiveAndProcessVAA"
    /\ evm_call.last.vm \in PublishedVAAs
    /\ evm_call.last.status = "reverted"
    /\ evm_call.last.reason = "abi.decode"

\* ---------------------------------------------------------------- C28
\* C28: for every sequence number at most one call mints; a call with a
\* sequence already processed reverts and mints nothing; a call that reverts
\* leaves processedVAAs, the balances and the mints as they were; the call
\* that mints marks its sequence.
C28_NoReplay ==
    /\ \A sequence \in DOMAIN evm_call.mints : evm_call.mints[sequence] <= 1
    /\ DOMAIN evm_call.mints = receiver.processedVAAs
    /\ [][evm_call' # evm_call
            => LET call == evm_call'.last
               IN  /\ call.vm.sequence \in receiver.processedVAAs
                        => call.status = "reverted"
                   /\ call.status = "reverted"
                        => /\ receiver' = receiver
                           /\ evm_call'.mints = evm_call.mints
                           /\ call.events = <<>>
                   /\ call.status = "ok"
                        => /\ call.vm.sequence \notin receiver.processedVAAs
                           /\ receiver'.processedVAAs
                                 = receiver.processedVAAs \cup {call.vm.sequence}
                           /\ MapGet(evm_call.mints, call.vm.sequence) = 0
                           /\ evm_call'.mints[call.vm.sequence] = 1]_vars

\* a message that was minted for is handed in again and the call reverts as
\* a replay
C28_Witness ==
    /\ evm_call.last.op = "receiveAndProcessVAA"
    /\ evm_call.last.status = "reverted"
    /\ evm_call.last.reason = "VAA already processed"
    /\ MapGet(evm_call.mints, evm_call.last.vm.sequence) = 1
    /\ evm_call.last.vm.sequence \in receiver.processedVAAs

\* ---------------------------------------------------------------- C30
\* the requests the server has called mint_nft for
MintingRequests == {i \in 1..Len(attestations) : attestations[i].mints # <<>>}

\* C30 as stated: the server calls mint only for a request whose
\* verification passed, at most once per request, and every verification
\* reference it passes to mint differs from every reference it passed before,
\* also for two passing requests of one claimant with the same distance and
\* activity handled at the same clock value.
C30_FreshReferences ==
    /\ \A i \in 1..Len(attestations) :
          /\ Len(attestations[i].mints) <= 1
          /\ attestations[i].mints # <<>> => attestations[i].passed
    /\ \A i, j \in MintingRequests :
          i # j => attestations[i].mints[1] # attestations[j].mints[1]

\* C30, what the code does: the server calls mint exactly once for a request
\* that passes and never for one that does not; two references are equal
\* exactly when claimant, clock value, distance and activity are all equal,
\* and then the second mint_nft aborts on the registry.
C30_ReferencesFollowInputs ==
    /\ \A i \in 1..Len(attestations) :
          /\ attestations[i].passed <=> Len(attestations[i].mints) = 1
          /\ ~attestations[i].passed <=> attestations[i].mints = <<>>
          /\ attestations[i].passed
                <=> verifyTransportWithVision(attestations[i].request.ai).success
                      /\ attestations[i].response # 400
          /\ attestations[i].passed
                => attestations[i].request.ai.distanceKm >= minDistanceKm
    /\ \A i, j \in MintingRequests :
          attestations[i].mints[1] = attestations[j].mints[1]
            <=> /\ attestations[i].request.userAddress = attestations[j].request.userAddress
                /\ attestations[i].now = attestations[j].now
                /\ attestations[i].request.ai = attestations[j].request.ai
    /\ \A r \in DOMAIN mint_count : mint_count[r] <= 1

\* two passing requests of one claimant, with the same distance and activity
\* and handled at the same clock value, were given the same reference, and
\* the mint of the second aborted as a duplicate
C30_Witness ==
    /\ \E i, j \in MintingRequests :
          /\ i < j
          /\ j = Len(attestations)
          /\ attestations[i].request = attestations[j].request
          /\ attestations[i].now = attestations[j].now
          /\ attestations[i].mints = attestations[j].mints
    /\ last_tx.op = "mint_nft"
    /\ last_tx.status = Abort(EVerificationIdAlreadyProcessed)
\* ---------------------------------------------------------------- C33
\* C33: list accepts every price, 0 included: a list by the token's owner
\* always commits, and the Listing it creates with price 0 is active and
\* indexed; a buy of a Listing priced 0 with a payment of 0 succeeds and
\* hands the token to the buyer; a buy of it with a positive payment fails
\* with IncorrectPaymentAmount.
C33_FreeListing ==
    [][/\ Executed(last_tx', "list_item")
            => /\ last_tx'.status = OK
               /\ LET l == last_tx'.events[1].listing_id
                   IN  /\ l \in DOMAIN listings'
                       /\ listings'[l].price_mist = last_tx'.args.price_mist
                       /\ l \in DOMAIN active_listings'
                       /\ \E i \in 1..Len(active_listing_ids') : active_listing_ids'[i] = l
       /\ (Executed(last_tx', "buy_item") /\ listings[last_tx'.args.listing].price_mist = 0)
            => LET listing == listings[last_tx'.args.listing]
               IN  /\ last_tx'.args.payment = 0
                        => /\ last_tx'.status = OK
                           /\ owned_nfts'[listing.nft.id]
                                 = [nft |-> listing.nft, owner |-> last_tx'.sender]
                           /\ balance' = balance
                   /\ last_tx'.args.payment > 0
                        => /\ last_tx'.status = Abort(EIncorrectPaymentAmount)
                           /\ UNCHANGED ledger]_vars

\* a Listing priced 0 has been bought with a payment of 0 by an account that
\* could have paid more
C33_Witness ==
    /\ Succeeded(last_tx, "buy_item")
    /\ last_tx.args.payment = 0
    /\ last_tx.events[1].price_mist = 0
    /\ balance[last_tx.sender] > 0
    /\ last_tx.events[1].nft_id \in DOMAIN owned_nfts
    /\ owned_nfts[last_tx.events[1].nft_id].owner = last_tx.sender

\* the map, the index and the Listing objects describe the same Listings
RegistryMatches ==
    /\ DOMAIN active_listings
          = {active_listing_ids[i] : i \in 1..Len(active_listing_ids)}
    /\ Cardinality(DOMAIN active_listings) = Len(active_listing_ids)
    /\ DOMAIN active_listings = DOMAIN listings
    /\ \A l \in DOMAIN listings : active_listings[l] = listings[l].seller

\* ---------------------------------------------------------------- C36
\* C36: in every reachable state the keys of the id-to-seller map are the
\* identities in the id index, the index repeats none, and the map records
\* for every active Listing the seller the Listing stores; so the guarded
\* removal of a buy or a cancel finds the identity and takes exactly it out.
C36_RegistryConsistent ==
    /\ []RegistryMatches
    /\ [][(Succeeded(last_tx', "buy_item") \/ Succeeded(last_tx', "cancel_listing"))
            => /\ index_of(active_listing_ids, last_tx'.args.listing)[1]
               /\ Len(active_listing_ids') = Len(active_listing_ids) - 1
               /\ {active_listing_ids'[i] : i \in 1..Len(active_listing_ids')}
                     = {active_listing_ids[i] : i \in 1..Len(active_listing_ids)}
                         \ {last_tx'.args.listing}]_vars

\* a buy or a cancel has taken one of three Listings out of the registry,
\* and the two that remain have different sellers
C36_Witness ==
    /\ last_tx.op \in {"buy_item", "cancel_listing"}
    /\ last_tx.status = OK
    /\ Len(active_listing_ids) = 2
    /\ active_listings[active_listing_ids[1]] # active_listings[active_listing_ids[2]]

\* ---------------------------------------------------------------- C38
\* C38: anyone may buy: a buy of an active Listing with the exact price
\* succeeds whoever calls; when the caller is the Listing's own seller the
\* token returns to the seller, no balance changes, and the registry is left
\* as a cancel leaves it; no list and no buy ends with NotSeller.
C38_SellerCanBuy ==
    [][/\ Executed(last_tx', "buy_item")
            => LET listing == listings[last_tx'.args.listing]
               IN  /\ last_tx'.args.payment = listing.price_mist => last_tx'.status = OK
                   /\ (last_tx'.status = OK /\ last_tx'.sender = listing.seller)
                        => /\ owned_nfts'[listing.nft.id]
                                 = [nft |-> listing.nft, owner |-> listing.seller]
                           /\ balance' = balance
                           /\ cancel_status(active_listings, listing, last_tx'.sender) = OK
                           /\ active_listings' = MapRemove(active_listings, listing.id)
                           /\ active_listing_ids'
                                 = remove_listing_id(active_listing_ids, listing.id)
                           /\ listing.id \notin DOMAIN listings'
       /\ last_tx'.op \in {"buy_item", "list_item"}
            => last_tx'.status # Abort(ENotSeller)]_vars

\* the seller of a Listing priced 1 has bought it
C38_Witness ==
    /\ Succeeded(last_tx, "buy_item")
    /\ last_tx.events[1].seller = last_tx.sender
    /\ last_tx.events[1].buyer = last_tx.sender
    /\ last_tx.events[1].price_mist = 1
    /\ last_tx.args.payment = 1
\* ---------------------------------------------------------------- C34
\* the units handed to the token bridge so far
Transported ==
    SumOver([i \in 1..Len(published) |-> published[i].amount], 1..Len(published))

TokensEverMinted ==
    {[id |-> owned_nfts[n].nft.id, ref |-> owned_nfts[n].nft.verification_id] :
        n \in DOMAIN owned_nfts}
    \cup {[id |-> listings[l].nft.id, ref |-> listings[l].nft.verification_id] :
        l \in DOMAIN listings}
    \cup {[id |-> certificates[c].cert.original_nft_id,
           ref |-> certificates[c].cert.original_verification_id] :
        c \in DOMAIN certificates}
    \cup {[id |-> published[i].payload.sui_nft_id,
           ref |-> published[i].payload.original_verification_id] :
        i \in 1..Len(published)}

\* C37: in every reachable state the processed verification references are
\* the references of the tokens ever minted, one token per reference and one
\* reference per token, wherever the token is now; two RetirementCertificates
\* never share an original reference or an original token identity.
C37_OneTokenPerReference ==
    /\ processed_ids = {t.ref : t \in TokensEverMinted}
    /\ Cardinality(TokensEverMinted) = Cardinality(processed_ids)
    /\ Cardinality(TokensEverMinted) = event_count["MintNFTEvent"]
    /\ \A t1, t2 \in TokensEverMinted : (t1.ref = t2.ref \/ t1.id = t2.id) => t1 = t2
    /\ \A c1, c2 \in DOMAIN certificates :
          c1 # c2 => /\ certificates[c1].cert.original_verification_id
                          # certificates[c2].cert.original_verification_id
                     /\ certificates[c1].cert.original_nft_id
                          # certificates[c2].cert.original_nft_id
    /\ Cardinality(DOMAIN owned_nfts) + Cardinality(DOMAIN listings)
          + Cardinality(DOMAIN certificates) + Len(published)
          = event_count["MintNFTEvent"]

\* two tokens were minted and both retired: two certificates exist, after a
\* mint with a used reference was turned down
C37_Witness ==
    /\ Cardinality(DOMAIN certificates) = 2
    /\ Cardinality(processed_ids) = 2
    /\ last_tx.op = "mint_nft"
    /\ last_tx.status = Abort(EVerificationIdAlreadyProcessed)
\* ---------------------------------------------------------------- C32
\* in st the token of the Listing, or a payment, has been handed over
HandedOver(st, listing) ==
    \/ listing.nft.id \in DOMAIN st.owned_nfts
    \/ st.balance # balance

\* in st the Listing identity is still in the map or in the index
Registered(st, listing) ==
    \/ listing.id \in DOMAIN st.active_listings
    \/ \E i \in 1..Len(st.active_listing_ids) : st.active_listing_ids[i] = listing.id

\* nowhere in the trace is the token or the payment handed over while the
\* Listing identity is registered
RemovedBeforeTransfer(trace, listing) ==
    /\ Registered(Holding, listing) /\ ~HandedOver(Holding, listing)
    /\ \A i \in 1..Len(trace) : HandedOver(trace[i], listing) => ~Registered(trace[i], listing)
    /\ \E i \in 1..Len(trace) : ~HandedOver(trace[i], listing) /\ ~Registered(trace[i], listing)

\* the state a committed transaction leaves is the last state of the trace
LeavesLastOf(trace) ==
    LET st == trace[Len(trace)]
    IN  /\ active_listings' = st.active_listings
        /\ active_listing_ids' = st.active_listing_ids
        /\ owned_nfts' = st.owned_nfts
        /\ balance' = st.balance
        /\ listings' = st.listings
        /\ deleted' = st.deleted
        /\ last_tx'.events = st.events

CanBuy(sender, l) ==
    /\ balance[sender] >= listings[l].price_mist
    /\ buy_status(active_listings, listings[l], listings[l].price_mist) = OK

CanCancel(sender, l) ==
    cancel_status(active_listings, listings[l], sender) = OK

OrderedFor(sender, l) ==
    /\ CanBuy(sender, l) => RemovedBeforeTransfer(buy_item_trace(sender, l, listings[l].price_mist), listings[l])
    /\ CanCancel(sender, l) => RemovedBeforeTransfer(cancel_listing_trace(sender, l), listings[l])

BuyLeavesLast ==
    Succeeded(last_tx', "buy_item") => LeavesLastOf(buy_item_trace(last_tx'.sender, last_tx'.args.listing, last_tx'.args.payment))

CancelLeavesLast ==
    Succeeded(last_tx', "cancel_listing") => LeavesLastOf(cancel_listing_trace(last_tx'.sender, last_tx'.args.listing))

\* C32: within every buy and every cancel that can run, the Listing identity
\* leaves the id-to-seller map and the id index before the token (and, for
\* buy, the payment) is transferred: no state between two statements has the
\* token handed over and the identity still in either structure; and the
\* statements, run in this order, leave what the committed transaction leaves.
C32_RemoveBeforeTransfer ==
    /\ [](\A l \in DOMAIN listings, sender \in Accounts : OrderedFor(sender, l))
    /\ [][BuyLeavesLast /\ CancelLeavesLast]_vars

\* after a sale, a Listing priced 1 is open that its seller can cancel and
\* the other account can buy: in the buy, after two statements the identity
\* is out of the registry and nothing is handed over, after three the buyer
\* holds the token, after four the seller holds the payment
C32_Witness ==
    /\ event_count["ItemSold"] > 0
    /\ \E l \in DOMAIN listings, sender \in Accounts :
          LET trace == buy_item_trace(sender, l, 1)
          IN  /\ listings[l].price_mist = 1
              /\ sender # listings[l].seller
              /\ balance[sender] >= 1
              /\ ~Registered(trace[2], listings[l]) /\ ~HandedOver(trace[2], listings[l])
              /\ trace[3].owned_nfts[listings[l].nft.id].owner = sender
              /\ trace[3].balance = balance
              /\ trace[4].balance[listings[l].seller] = balance[listings[l].seller] + 1
\* ---------------------------------------------------------------- C35
\* handleBuy's choice of a payment from the coins of a wallet, for a price:
\* nothing with no coin, with one coin, or with no coin that covers the
\* price; else a coin equal to the price, or exactly the price split off a
\* larger coin
SelectsAsStated(coins, price) ==
    LET input == paymentCoinInput(coins, price)
        covering == {i \in 1..Len(coins) : coins[i] >= price}
    IN  /\ input.type = "none" <=> (Len(coins) <= 1 \/ covering = {})
        /\ input.type = "object"
              => /\ \E i \in covering : coins[i] = price
                 /\ paymentCoinArg(input) = price
        /\ input.type = "split"
              => /\ \E i \in covering : coins[i] > price
                 /\ paymentCoinArg(input) = price

CoinTotals == 0..2

\* a call of handleBuy has its transaction executed in this step
BuySubmitted(i) ==
    /\ i \in 1..Len(calls)
    /\ calls[i].kind = "buy"
    /\ calls[i].at = "signAndExecuteTransaction"
    /\ calls' = Remove(calls, i)
    /\ page'.waiting["buy"]

\* a call of handleBuy starts in this step
BuyStarted ==
    /\ Len(calls') = Len(calls) + 1
    /\ calls'[Len(calls')].op = "handleBuy"

BuyInFlight ==
    \/ page.acting["buy"] # NoId
    \/ page.waiting["buy"]
    \/ \E i \in 1..Len(calls) : calls[i].kind = "buy"

\* C35 as stated: every buy transaction the client submits carries a payment
\* equal to the price of the Listing it buys, as the client read it: a coin
\* whose balance equals the price, or exactly the price split off a larger
\* coin; the client submits nothing when the wallet lists zero coins, one
\* coin, or no coin with at least the price; and no buy starts while one is
\* in flight.
C35_PaysListingPrice ==
    /\ [](\A price \in Prices, total \in CoinTotals :
             \A coins \in fetchUserCoins(total) : SelectsAsStated(coins, price))
    /\ [][/\ \A i \in 1..Len(calls) :
                BuySubmitted(i)
                   => /\ last_tx'.op = "buy_item"
                      /\ last_tx'.sender = page.account
                      /\ last_tx'.args.payment = calls[i].tx.payment
                      /\ last_tx'.args.payment
                            = listings[calls[i].tx.object].price_mist
          /\ BuyStarted => ~BuyInFlight]_vars

\* C35, what the code does: the payment of every buy transaction the client
\* submits is the amount handleBuy computed from the listing data the page
\* holds, and that amount is 0 for every Listing, because the page reads a
\* field price_micro_iota that a Listing object does not have.
C35_PaysRequiredAmount ==
    /\ [](\A l \in DOMAIN page.listings : requiredAmount(page.listings[l]) = 0)
    /\ [][/\ \A i \in 1..Len(calls) :
                BuySubmitted(i)
                   => /\ last_tx'.op = "buy_item"
                      /\ last_tx'.args.payment = calls[i].tx.amount
                      /\ last_tx'.args.payment = 0
                      /\ listings[calls[i].tx.object].price_mist # 0
                            => last_tx'.status \in {Abort(EIncorrectPaymentAmount),
                                                    InsufficientGas}
          /\ BuyStarted => ~BuyInFlight]_vars

\* the client has bought a Listing priced 1 with a payment of 0 split off a
\* coin, the ledger has aborted the buy with IncorrectPaymentAmount, and the
\* page waits for the confirmation of the failed transaction
C35_Witness ==
    /\ last_tx.op = "buy_item"
    /\ last_tx.sender = page.account
    /\ last_tx.status = Abort(EIncorrectPaymentAmount)
    /\ last_tx.args.payment = 0
    /\ last_tx.args.listing \in DOMAIN listings
    /\ listings[last_tx.args.listing].price_mist = 1
    /\ page.digest["buy"] = "failure"
    /\ page.waiting["buy"]
\* ---------------------------------------------------------------- C31
\* the tick of an effect asks for the transaction in this step
PollIssued(e) ==
    BagCardinality(effects'[e].requests) > BagCardinality(effects[e].requests)

\* the page stops waiting for a kind in this step
PollingEnded(kind) == page.waiting[kind] /\ ~page'.waiting[kind]

\* the tick of an effect times out in this step
TimedOut(e) ==
    /\ effects[e].armed
    /\ toast' = <<TimeoutToast(KindOf(e))>>

\* every interval that is set is cleared later, and a page that waits stops waiting
PollingAlwaysEnds ==
    /\ \A e \in Effects : effects[e].armed ~> ~effects[e].armed
    /\ \A k \in Kinds : page.waiting[k] ~> ~page.waiting[k]

\* polling ends by an observed success, an observed failure or the timeout,
\* and the timeout reports a timeout, not a failure, and clears the waiting state
EndsAsStated ==
    /\ \A k \in Kinds :
          PollingEnded(k)
             => toast' \in {<<SuccessToast(k)>>, <<FailureToast(k)>>, <<TimeoutToast(k)>>}
    /\ \A e \in Effects :
          TimedOut(e)
             => /\ toast' # <<FailureToast(KindOf(e))>>
                /\ ~page'.waiting[KindOf(e)]
                /\ page'.acting[KindOf(e)] = NoId
                /\ ~PollIssued(e)

\* C31 as stated: once the page waits for a retire, buy or cancel transaction
\* polling always ends; it ends on the first observed success, the first
\* observed failure or the timeout; the timeout reports a timeout, not a
\* failure, and clears the waiting state; and no status poll is issued once
\* the page has stopped waiting.
C31_PollingStops ==
    /\ PollingAlwaysEnds
    /\ [][/\ EndsAsStated
          /\ \A e \in Effects : PollIssued(e) => page.waiting[KindOf(e)]]_vars

\* C31, what the code does: polling always ends, in the three ways stated;
\* a status poll is issued after the page stopped waiting only by an interval
\* that waits for the effect cleanup of a commit React has not made yet: the
\* interval of retire, which no callback clears, or the interval of one of
\* the two buy effects after the other one ended the wait; never by cancel.
C31_PollingEnds ==
    /\ PollingAlwaysEnds
    /\ [][/\ EndsAsStated
          /\ \A e \in Effects :
                (PollIssued(e) /\ ~page.waiting[KindOf(e)])
                   => /\ ~Committed
                      /\ e \in {"retire@400", "buy@357", "buy@602"}]_vars

\* the retire poll has seen the success and the page has stopped waiting, but
\* the interval is still set, has time left and room for a request: its next
\* tick asks for the transaction again
C31_Witness ==
    /\ toast = <<SuccessToast("retire")>>
    /\ ~page.waiting["retire"]
    /\ effects["retire@400"].armed
    /\ effects["retire@400"].elapsed + pollIntervalMs < timeoutDuration
    /\ BagCardinality(effects["retire@400"].requests) < MaxInFlight
====
